---- MODULE Spec2Model ----
(***************************************************************************)
(* A model of the pygit repository engine: the content-addressed object    *)
(* store, the refs, the index, the working tree and the commands that      *)
(* mutate them (add, rm, commit, branch, checkout, tag, merge, rebase,     *)
(* stash).                                                                 *)
(*                                                                         *)
(* Representation.                                                         *)
(*  - A file content is a sequence of byte tokens (naturals).              *)
(*  - An object id is the pair <<type, data>> of the framed object it is   *)
(*    the SHA-1 of: the digest is modelled as an injective function of the *)
(*    framed bytes, so the id determines the content and equal contents    *)
(*    have equal ids.  The byte-level framing, compression and parsing of  *)
(*    objects.py is modelled separately (objects_dir, SpecStore).          *)
(*  - A tree body (json.dumps(index, sort_keys=True)) is the mapping       *)
(*    path -> blob id itself; a commit body is the record of its lines.    *)
(*  - Python's None is the value None; a dict is a function on its keys.   *)
(*  - A command that returns False or raises exits non-zero (pygit.py      *)
(*    main): rc = "fail"; otherwise rc = "ok".                             *)
(***************************************************************************)
EXTENDS Integers, Sequences, FiniteSets, TLC

None == <<"None">>

\* ---------------------------------------------------------------- bounds
\* Commit objects that commit and stash push may create (merge and rebase: one more).
MaxCommits == 3
\* Commit objects that commit may create in SpecDag (merge: one more).
MaxDagCommits == 5
\* Commits made by `commit` in SpecRebase; a rebase may add two more.
MaxRebaseCommits == 4
\* Entries of refs/stash in Spec.
MaxStash == 1
\* Commits of the graphs find_common_ancestor is applied to in SpecLca.
MaxLcaCommits == 4
\* Files of the objects directory, and bytes of the data hashed, in SpecStore.
MaxObjects == 2
MaxDataLen == 1

\* ---------------------------------------------------------------- inputs
Paths == {"a.txt", "b.txt"}
\* The edits of the user: a.txt with either content, b.txt with the first.
FileInputs == {<<"a.txt", <<1>>>>, <<"a.txt", <<2>>>>, <<"b.txt", <<1>>>>}
CoreFiles == {<<"a.txt", <<1>>>>}
BranchNames == {"main", "feature"}
TagNames == {"v1"}
Messages == {"m"}
RebaseMessages == {"m", "n"}
TagMessages == {<<"t">>}
\* sorted() of path names, and the bytes of a branch name inside a file
PathOrder == <<"a.txt", "b.txt", "c.txt">>
BranchToken(b) == IF b = "main" THEN 101 ELSE 102

VARIABLES
    objects,     \* ids of the files under .pygit/objects
    HEAD,        \* <<"ref", branch>> ("ref: refs/heads/<branch>") or <<"sha", id>>
    refs_heads,  \* branch name -> id, the files under .pygit/refs/heads
    refs_tags,   \* tag name -> id, the files under .pygit/refs/tags
    refs_stash,  \* sequence of ids, the lines of .pygit/refs/stash
    index,       \* path -> blob id, .pygit/index
    workdir,     \* path -> content, the working tree
    stray,       \* files written directly under .pygit that are none of the above
    clock,       \* datetime.now()
    objects_dir, \* id -> bytes of the file, .pygit/objects seen by objects.py alone
    pending,     \* the file writes of the command in progress that are still to be made
    writers,     \* the processes inside hash_object: what each is writing and how far it is
    last         \* the last command run: its name, argument, exit status, outcome

vars ==
    <<objects, HEAD, refs_heads, refs_tags, refs_stash, index, workdir, stray, clock,
      objects_dir, pending, writers, last>>

\* ---------------------------------------------------------------- dicts
EmptyDict == [k \in {} |-> None]
Get(d, k) == IF k \in DOMAIN d THEN d[k] ELSE None
Put(d, k, v) == [x \in (DOMAIN d) \cup {k} |-> IF x = k THEN v ELSE d[x]]
Del(d, k) == [x \in (DOMAIN d) \ {k} |-> d[x]]
Update(d, e) == [x \in (DOMAIN d) \cup (DOMAIN e) |-> IF x \in DOMAIN e THEN e[x] ELSE d[x]]

\* The repository as one value, so that a handler that calls another composes.
Repo ==
    [objects |-> objects, HEAD |-> HEAD, heads |-> refs_heads, tags |-> refs_tags,
     stash |-> refs_stash, index |-> index, workdir |-> workdir, stray |-> stray,
     clock |-> clock, rc |-> "ok", note |-> "none"]

Ok(R, note) == [R EXCEPT !.rc = "ok", !.note = note]
Fail(R, note) == [R EXCEPT !.rc = "fail", !.note = note]

\* User-supplied names: a plain name, or the full 40-hex id of an object.
Name(s) == <<"name", s>>
Hex(id) == <<"hex", id>>
IsHex(name) == name[1] = "hex"

\* ---------------------------------------------------------------- objects.py
sha1(data, obj_type) == <<obj_type, data>>

read_object(objs, sha) ==
    IF sha \in objs THEN [type |-> sha[1], content |-> sha[2]]
    ELSE [type |-> "None", content |-> None]

hash_object(objs, data, obj_type) ==
    IF sha1(data, obj_type) \in objs THEN objs ELSE objs \cup {sha1(data, obj_type)}

\* The tree line of a commit; None for a missing object or text with no tree line.
get_commit_tree(objs, commit_sha1) ==
    LET o == read_object(objs, commit_sha1) IN
    IF o.type = "commit" THEN o.content.tree ELSE None

get_tree_contents(objs, tree_sha1) ==
    IF tree_sha1 = None THEN EmptyDict
    ELSE LET o == read_object(objs, tree_sha1) IN
         IF o.type = "tree" THEN o.content ELSE EmptyDict

\* ---------------------------------------------------------------- refs.py
get_head_ref(R) == R.HEAD

get_head_commit(R) ==
    IF R.HEAD[1] = "sha" THEN R.HEAD[2]
    ELSE Get(R.heads, R.HEAD[2])

get_branch_commit(R, branch_name) ==
    IF IsHex(branch_name) THEN None ELSE Get(R.heads, branch_name[2])

get_tag_ref(R, tag_name) ==
    IF IsHex(tag_name) THEN None ELSE Get(R.tags, tag_name[2])

update_head(R, ref, detached) ==
    [R EXCEPT !.HEAD = IF detached THEN <<"sha", ref>> ELSE <<"ref", ref>>]

create_tag(R, tag_name, target_sha1, message) ==
    IF tag_name \in DOMAIN R.tags THEN Fail(R, "exists")
    ELSE IF message # None
         THEN LET tag_content == [object |-> target_sha1,
                                  type |-> read_object(R.objects, target_sha1).type,
                                  tag |-> tag_name, message |-> message]
              IN  Ok([R EXCEPT !.objects = hash_object(@, tag_content, "tag"),
                               !.tags = Put(@, tag_name, sha1(tag_content, "tag"))],
                     "annotated")
         ELSE Ok([R EXCEPT !.tags = Put(@, tag_name, target_sha1)], "lightweight")

read_stash(R) == R.stash
write_stash(R, stashes) == [R EXCEPT !.stash = stashes]

\* ---------------------------------------------------------------- index.py
read_index(R) == R.index
write_index(R, index_data) == [R EXCEPT !.index = index_data]

\* ---------------------------------------------------------------- resolver.py
\* A full id matches exactly the stored object of that id (shorter prefixes are
\* not inputs of this model).
resolve_ref(R, name) ==
    IF get_branch_commit(R, name) # None THEN get_branch_commit(R, name)
    ELSE IF get_tag_ref(R, name) # None THEN get_tag_ref(R, name)
    ELSE IF IsHex(name) /\ name[2] \in R.objects THEN name[2]
    ELSE None

RECURSIVE peel(_, _)
peel(objs, sha) ==
    LET o == read_object(objs, sha) IN
    IF o.type = "commit" THEN sha
    ELSE IF o.type = "tag" THEN peel(objs, o.content.object)
    ELSE None

\* resolve_ref_to_commit without the loop of lines 13-20 that follows tags.
resolve_ref_unpeeled(R, ref_name) == resolve_ref(R, ref_name)

resolve_ref_to_commit(R, ref_name) ==
    LET sha == resolve_ref(R, ref_name) IN
    IF sha = None THEN None ELSE peel(R.objects, sha)

\* ---------------------------------------------------------------- utils.py
\* The parent lines of an object's text, "parent None" left out; the text of a
\* tree or a tag has no line that starts with "parent ".
get_commit_parents(o) ==
    IF o.type = "commit" THEN SelectSeq(o.content.parents, LAMBDA p : p # None)
    ELSE <<>>

\* The walk taking the last parent line where the code takes parents[0].
RECURSIVE get_commit_history_last_parent(_, _)
get_commit_history_last_parent(objs, commit_sha1) ==
    IF commit_sha1 = None THEN <<>>
    ELSE LET o == read_object(objs, commit_sha1) IN
         IF o.type # "commit" THEN <<>>
         ELSE LET parents == get_commit_parents(o) IN
              <<commit_sha1>> \o
              get_commit_history_last_parent(objs, IF parents # <<>> THEN parents[Len(parents)]
                                                   ELSE None)

RECURSIVE get_commit_history(_, _)
get_commit_history(objs, commit_sha1) ==
    IF commit_sha1 = None THEN <<>>
    ELSE LET o == read_object(objs, commit_sha1) IN
         IF o.type # "commit" THEN <<>>
         ELSE LET parents == get_commit_parents(o) IN
              <<commit_sha1>> \o
              get_commit_history(objs, IF parents # <<>> THEN parents[1] ELSE None)

\* One round of "for parent in parents: if parent not in visited: ..." .
RECURSIVE enqueue(_, _, _)
enqueue(parents, q, visited) ==
    IF parents = <<>> THEN [q |-> q, visited |-> visited]
    ELSE IF Head(parents) \in visited THEN enqueue(Tail(parents), q, visited)
    ELSE enqueue(Tail(parents), Append(q, Head(parents)), visited \cup {Head(parents)})

RECURSIVE history_loop(_, _, _, _)
history_loop(objs, q, visited, history) ==
    IF q = <<>> THEN history
    ELSE LET commit_sha1 == Head(q)
             o == read_object(objs, commit_sha1)
             e == enqueue(get_commit_parents(o), Tail(q), visited)
         IN  IF o.type = "None"
             THEN history_loop(objs, Tail(q), visited, history \cup {commit_sha1})
             ELSE history_loop(objs, e.q, e.visited, history \cup {commit_sha1})

get_full_history_set(objs, start_commit_sha1) ==
    IF start_commit_sha1 = None THEN {}
    ELSE history_loop(objs, <<start_commit_sha1>>, {start_commit_sha1}, {})

RECURSIVE ancestor_loop(_, _, _, _)
ancestor_loop(objs, history1, q, visited) ==
    IF q = <<>> THEN None
    ELSE LET current_sha == Head(q)
             o == read_object(objs, current_sha)
             e == enqueue(get_commit_parents(o), Tail(q), visited)
         IN  IF current_sha \in history1 THEN current_sha
             ELSE IF o.type = "None" THEN ancestor_loop(objs, history1, Tail(q), visited)
             ELSE ancestor_loop(objs, history1, e.q, e.visited)

\* find_common_ancestor with history1 taken from commit2_sha.
find_common_ancestor_of_second(objs, commit1_sha, commit2_sha) ==
    ancestor_loop(objs, get_full_history_set(objs, commit2_sha),
                  <<commit2_sha>>, {commit2_sha})

find_common_ancestor(objs, commit1_sha, commit2_sha) ==
    ancestor_loop(objs, get_full_history_set(objs, commit1_sha),
                  <<commit2_sha>>, {commit2_sha})

\* ---------------------------------------------------------------- commands.py
\* The commit text; datetime.now() is the clock, which every reading advances.
create_commit_sha(R, message, tree_sha1, parents) ==
    sha1([tree |-> tree_sha1,
          parents |-> IF parents = <<>> THEN <<None>> ELSE parents,
          time |-> R.clock, message |-> message], "commit")

create_commit(R, message, tree_sha1, parents) ==
    [R EXCEPT !.objects = hash_object(@, create_commit_sha(R, message, tree_sha1, parents)[2],
                                      "commit"),
              !.clock = @ + 1]

resolve_ref_or_head(R, ref_name) ==
    IF ref_name = Name("HEAD") \/ ref_name = Name("head") THEN get_head_commit(R)
    ELSE resolve_ref_to_commit(R, ref_name)

\* repository.py 22-25: init where .pygit exists prints the error and returns None.
init(R) == Ok(R, "already initialized")

add(R, filepath) ==
    IF filepath \notin DOMAIN R.workdir THEN Fail(R, "not found")
    ELSE LET content == R.workdir[filepath] IN
         Ok([R EXCEPT !.objects = hash_object(@, content, "blob"),
                      !.index = Put(@, filepath, sha1(content, "blob"))],
            "staged")

\* rm without the os.remove of lines 107-113.
rm_index_only(R, filepath) ==
    IF filepath \notin DOMAIN R.index THEN Fail(R, "pathspec")
    ELSE Ok([R EXCEPT !.index = Del(@, filepath)], "removed")

rm(R, filepath) ==
    IF filepath \notin DOMAIN R.index THEN Fail(R, "pathspec")
    ELSE Ok([R EXCEPT !.index = Del(@, filepath), !.workdir = Del(@, filepath)], "removed")

\* The commit written without line 144's update of a detached HEAD.
commit_write_head_kept(R, message) ==
    LET tree_sha1 == sha1(read_index(R), "tree")
        R1 == [R EXCEPT !.objects = hash_object(@, read_index(R), "tree")]
        parent_sha1 == get_head_commit(R1)
        parents == IF parent_sha1 # None THEN <<parent_sha1>> ELSE <<>>
        commit_sha1 == create_commit_sha(R1, message, tree_sha1, parents)
        R2 == create_commit(R1, message, tree_sha1, parents)
    IN  IF get_head_ref(R2)[1] = "ref"
        THEN Ok([R2 EXCEPT !.heads = Put(@, get_head_ref(R2)[2], commit_sha1)], "committed")
        ELSE Ok(R2, "committed")

\* Lines 129-144: the tree of the index, the commit, and the ref that takes it.
commit_write(R, message) ==
    LET tree_sha1 == sha1(read_index(R), "tree")
        R1 == [R EXCEPT !.objects = hash_object(@, read_index(R), "tree")]
        parent_sha1 == get_head_commit(R1)
        parents == IF parent_sha1 # None THEN <<parent_sha1>> ELSE <<>>
        commit_sha1 == create_commit_sha(R1, message, tree_sha1, parents)
        R2 == create_commit(R1, message, tree_sha1, parents)
    IN  IF get_head_ref(R2)[1] = "ref"
        THEN Ok([R2 EXCEPT !.heads = Put(@, get_head_ref(R2)[2], commit_sha1)], "committed")
        ELSE Ok(update_head(R2, commit_sha1, TRUE), "committed")

\* commit without the `if not index` test of lines 124-127.
commit_of_any_index(R, message) == commit_write(R, message)

commit(R, message) ==
    IF DOMAIN read_index(R) = {} THEN Ok(R, "nothing")
    ELSE commit_write(R, message)

\* diff.py 24-36.
compare_trees(from_tree, to_tree) ==
    [added |-> (DOMAIN to_tree) \ (DOMAIN from_tree),
     deleted |-> (DOMAIN from_tree) \ (DOMAIN to_tree),
     modified |-> {f \in (DOMAIN from_tree) \cap (DOMAIN to_tree) : from_tree[f] # to_tree[f]}]

\* status comparing each working file with HEAD's entry where line 203 compares it
\* with the index entry.
status_report_against_head(R) ==
    LET head_commit == get_head_commit(R)
        head_tree == IF head_commit # None
                     THEN get_tree_contents(R.objects, get_commit_tree(R.objects, head_commit))
                     ELSE EmptyDict
        index_tree == read_index(R)
        staged == compare_trees(head_tree, index_tree)
        on_disk == DOMAIN R.workdir
    IN  [staged_added |-> staged.added,
         staged_deleted |-> staged.deleted,
         staged_modified |-> staged.modified,
         unstaged_modified |-> {p \in on_disk \cap DOMAIN index_tree :
                                   sha1(R.workdir[p], "blob") # Get(head_tree, p)},
         unstaged_deleted |-> (DOMAIN index_tree) \ on_disk,
         untracked_files |-> on_disk \ DOMAIN index_tree]

\* Lines 171-209: what status prints, with no .gitignore in the repository.
status_report(R) ==
    LET head_commit == get_head_commit(R)
        head_tree == IF head_commit # None
                     THEN get_tree_contents(R.objects, get_commit_tree(R.objects, head_commit))
                     ELSE EmptyDict
        index_tree == read_index(R)
        staged == compare_trees(head_tree, index_tree)
        on_disk == DOMAIN R.workdir
    IN  [staged_added |-> staged.added,
         staged_deleted |-> staged.deleted,
         staged_modified |-> staged.modified,
         unstaged_modified |-> {p \in on_disk \cap DOMAIN index_tree :
                                   sha1(R.workdir[p], "blob") # index_tree[p]},
         unstaged_deleted |-> (DOMAIN index_tree) \ on_disk,
         untracked_files |-> on_disk \ DOMAIN index_tree]

\* Lines 159-221: hash_object at line 202 stores the blob of each tracked file on disk.
status(R) ==
    Ok([R EXCEPT !.objects = @ \cup {sha1(R.workdir[p], "blob") :
                                        p \in (DOMAIN R.workdir) \cap DOMAIN read_index(R)}],
       "reported")

\* checkout that writes the new tree's files and deletes none.
checkout_files_keeps_old(R, old_tree, new_tree) ==
    [p \in (DOMAIN R.workdir) \cup DOMAIN new_tree |->
        IF p \in DOMAIN new_tree THEN read_object(R.objects, new_tree[p]).content
        ELSE R.workdir[p]]

\* checkout that deletes the old tree's files and writes none of the new tree's.
checkout_files_writes_none(R, old_tree, new_tree) ==
    [p \in (DOMAIN R.workdir) \ ((DOMAIN old_tree) \ (DOMAIN new_tree)) |-> R.workdir[p]]

\* Lines 269-280: delete what only the old tree holds, write every file of the new.
checkout_files(R, old_tree, new_tree) ==
    [p \in ((DOMAIN R.workdir) \ ((DOMAIN old_tree) \ (DOMAIN new_tree))) \cup DOMAIN new_tree |->
        IF p \in DOMAIN new_tree THEN read_object(R.objects, new_tree[p]).content
        ELSE R.workdir[p]]

\* Lines 292-299 with the is_branch test always false.
checkout_head_detached(R, name, commit_sha1) == update_head(R, commit_sha1, TRUE)

\* Lines 292-299 with the is_branch test always true.
checkout_head_attached(R, name, commit_sha1) == update_head(R, name[2], FALSE)

\* Lines 292-299.
checkout_head(R, name, commit_sha1) ==
    IF get_branch_commit(R, name) # None
    THEN update_head(R, name[2], FALSE)
    ELSE update_head(R, commit_sha1, TRUE)

\* checkout that reports the unresolved name after lines 267-290 instead of before.
checkout_fails_late(R, name) ==
    LET old_head_commit == get_head_commit(R)
        old_tree == IF old_head_commit # None
                    THEN get_tree_contents(R.objects, get_commit_tree(R.objects, old_head_commit))
                    ELSE EmptyDict
        commit_sha1 == resolve_ref_or_head(R, name)
        new_tree == get_tree_contents(R.objects, get_commit_tree(R.objects, commit_sha1))
        R1 == [R EXCEPT !.workdir = checkout_files(R, old_tree, new_tree)]
        R2 == write_index(R1, new_tree)
    IN  IF commit_sha1 = None THEN Fail(R2, "pathspec")
        ELSE Ok(checkout_head(R2, name, commit_sha1), "switched")

checkout(R, name) ==
    LET old_head_commit == get_head_commit(R)
        old_tree == IF old_head_commit # None
                    THEN get_tree_contents(R.objects, get_commit_tree(R.objects, old_head_commit))
                    ELSE EmptyDict
        commit_sha1 == resolve_ref_or_head(R, name)
        new_tree == get_tree_contents(R.objects, get_commit_tree(R.objects, commit_sha1))
        R1 == [R EXCEPT !.workdir = checkout_files(R, old_tree, new_tree)]
        R2 == write_index(R1, new_tree)
    IN  IF commit_sha1 = None THEN Fail(R, "pathspec")
        ELSE Ok(checkout_head(R2, name, commit_sha1), "switched")

\* branch that starts every new branch at HEAD, whatever start point is given.
branch_from_head(R, branch_name, start_point) ==
    IF branch_name \in DOMAIN R.heads THEN Fail(R, "exists")
    ELSE LET commit_hash == resolve_ref_or_head(R, Name("HEAD"))
         IN  IF commit_hash = None THEN Fail(R, "unresolved")
             ELSE Ok([R EXCEPT !.heads = Put(@, branch_name, commit_hash)], "created")

\* Lines 239-252.
branch(R, branch_name, start_point) ==
    IF branch_name \in DOMAIN R.heads THEN Fail(R, "exists")
    ELSE LET start_point_ref == IF start_point # None THEN start_point ELSE Name("HEAD")
             commit_hash == resolve_ref_or_head(R, start_point_ref)
         IN  IF commit_hash = None THEN Fail(R, "unresolved")
             ELSE Ok([R EXCEPT !.heads = Put(@, branch_name, commit_hash)], "created")

\* tag() prints and returns None whatever create_tag returns.
tag(R, tag_name, commit_ref, message) ==
    LET sha == resolve_ref_or_head(R, IF commit_ref # None THEN commit_ref ELSE Name("HEAD")) IN
    IF sha = None THEN Fail(R, "unresolved")
    ELSE [create_tag(R, tag_name, sha, message) EXCEPT !.rc = "ok"]

\* sorted(paths)
SortedPaths(S) == SelectSeq(PathOrder, LAMBDA p : p \in S)

\* Lines 362-367 for one path: what the loop does with it.
merge_path(base_hash, head_hash, other_hash) ==
    IF base_hash = head_hash \/ head_hash = other_hash
    THEN IF other_hash # None THEN "other" ELSE "keep"
    ELSE IF base_hash # other_hash THEN "conflict" ELSE "keep"

merge_tree(base_tree, head_tree, other_tree) ==
    LET take == {p \in DOMAIN other_tree :
                    merge_path(Get(base_tree, p), Get(head_tree, p), Get(other_tree, p)) = "other"}
    IN  [p \in (DOMAIN head_tree) \cup take |-> IF p \in take THEN other_tree[p] ELSE head_tree[p]]

merge_conflicts(base_tree, head_tree, other_tree) ==
    SortedPaths({p \in (DOMAIN base_tree) \cup (DOMAIN head_tree) \cup (DOMAIN other_tree) :
                    merge_path(Get(base_tree, p), Get(head_tree, p), Get(other_tree, p)) = "conflict"})

\* f'<<<<<<< HEAD\n{head}\n=======\n{other}\n>>>>>>> {branch_name}\n'
conflict_content(head_content, other_content, branch_name) ==
    <<60>> \o head_content \o <<61>> \o other_content \o <<62, BranchToken(branch_name)>>

\* Lines 371-377, path by path; head_tree[path] or other_tree[path] of a path one
\* side does not hold raises KeyError, which ends the command there.
RECURSIVE write_conflicts(_, _, _, _, _, _)
write_conflicts(R, merged_tree, conflicts, head_tree, other_tree, branch_name) ==
    IF conflicts = <<>> THEN [R |-> R, merged_tree |-> merged_tree, raised |-> FALSE]
    ELSE LET path == Head(conflicts) IN
         IF path \notin DOMAIN head_tree \/ path \notin DOMAIN other_tree
         THEN [R |-> R, merged_tree |-> merged_tree, raised |-> TRUE]
         ELSE LET c == conflict_content(read_object(R.objects, head_tree[path]).content,
                                        read_object(R.objects, other_tree[path]).content,
                                        branch_name)
                  R1 == [R EXCEPT !.workdir = Put(@, path, c),
                                  !.objects = hash_object(@, c, "blob")]
              IN  write_conflicts(R1, Put(merged_tree, path, sha1(c, "blob")),
                                  Tail(conflicts), head_tree, other_tree, branch_name)

\* The conflict branch ending in a bare `return`: the command reports success.
merge_conflicted_returns_none(R, merged_tree, conflicts, head_tree, other_tree, branch_name) ==
    LET w == write_conflicts(R, merged_tree, conflicts, head_tree, other_tree, branch_name) IN
    IF w.raised THEN Fail(w.R, "KeyError")
    ELSE Ok(write_index(w.R, w.merged_tree), "conflict")

\* Lines 369-379.
merge_conflicted(R, merged_tree, conflicts, head_tree, other_tree, branch_name) ==
    LET w == write_conflicts(R, merged_tree, conflicts, head_tree, other_tree, branch_name) IN
    IF w.raised THEN Fail(w.R, "KeyError")
    ELSE Fail(write_index(w.R, w.merged_tree), "conflict")

\* The merge commit with its parent lines in the other order.
merge_commit_other_first(R, merged_tree, head_commit, other_commit, branch_name) ==
    LET R1 == [R EXCEPT !.objects = hash_object(@, merged_tree, "tree")]
        message == <<"Merge branch", branch_name>>
        parents == <<other_commit, head_commit>>
        merge_commit_sha == create_commit_sha(R1, message, sha1(merged_tree, "tree"), parents)
        R2 == create_commit(R1, message, sha1(merged_tree, "tree"), parents)
        head_ref == get_head_ref(R2)
        R3 == IF head_ref[1] = "ref"
              THEN [R2 EXCEPT !.heads = Put(@, head_ref[2], merge_commit_sha)]
              ELSE [R2 EXCEPT !.stray = Put(@, head_ref[2], merge_commit_sha)]
    IN  Ok(checkout(R3, IF head_ref[1] = "ref" THEN Name(head_ref[2]) ELSE Hex(head_ref[2])),
           "merged")

\* Lines 381-394.
merge_commit(R, merged_tree, head_commit, other_commit, branch_name) ==
    LET R1 == [R EXCEPT !.objects = hash_object(@, merged_tree, "tree")]
        message == <<"Merge branch", branch_name>>
        parents == <<head_commit, other_commit>>
        merge_commit_sha == create_commit_sha(R1, message, sha1(merged_tree, "tree"), parents)
        R2 == create_commit(R1, message, sha1(merged_tree, "tree"), parents)
        head_ref == get_head_ref(R2)
        R3 == IF head_ref[1] = "ref"
              THEN [R2 EXCEPT !.heads = Put(@, head_ref[2], merge_commit_sha)]
              ELSE [R2 EXCEPT !.stray = Put(@, head_ref[2], merge_commit_sha)]
    IN  Ok(checkout(R3, IF head_ref[1] = "ref" THEN Name(head_ref[2]) ELSE Hex(head_ref[2])),
           "merged")

\* Lines 345-394.
merge_three_way(R, head_commit, other_commit, branch_name) ==
    LET base_commit == find_common_ancestor(R.objects, head_commit, other_commit)
        base_tree == get_tree_contents(R.objects, get_commit_tree(R.objects, base_commit))
        head_tree == get_tree_contents(R.objects, get_commit_tree(R.objects, head_commit))
        other_tree == get_tree_contents(R.objects, get_commit_tree(R.objects, other_commit))
        merged_tree == merge_tree(base_tree, head_tree, other_tree)
        conflicts == merge_conflicts(base_tree, head_tree, other_tree)
    IN  IF base_commit = None THEN Fail(R, "no ancestor")
        ELSE IF conflicts # <<>>
        THEN merge_conflicted(R, merged_tree, conflicts, head_tree, other_tree, branch_name[2])
        ELSE merge_commit(R, merged_tree, head_commit, other_commit, branch_name[2])

\* merge that tests for a fast-forward before the tests of lines 330-337.
merge_fast_forward_first(R, branch_name) ==
    LET head_commit == get_head_commit(R)
        other_commit == get_branch_commit(R, branch_name)
    IN  IF other_commit = None THEN Ok(R, "up to date")
        ELSE IF head_commit \in get_full_history_set(R.objects, other_commit)
                \/ other_commit \in get_full_history_set(R.objects, head_commit)
        THEN Ok(checkout(R, branch_name), "fast-forward")
        ELSE merge_three_way(R, head_commit, other_commit, branch_name)

\* Lines 326-343, then the three-way merge.
merge(R, branch_name) ==
    LET head_commit == get_head_commit(R)
        other_commit == get_branch_commit(R, branch_name)
    IN  IF other_commit = None \/ head_commit = other_commit THEN Ok(R, "up to date")
        ELSE IF other_commit \in get_full_history_set(R.objects, head_commit)
        THEN Ok(R, "up to date")
        ELSE IF head_commit \in get_full_history_set(R.objects, other_commit)
        THEN Ok(checkout(R, branch_name), "fast-forward")
        ELSE merge_three_way(R, head_commit, other_commit, branch_name)

\* Lines 447-452: the blobs of the tracked files that exist on disk.
stash_workdir_tree(R) ==
    [p \in (DOMAIN R.index) \cap (DOMAIN R.workdir) |-> sha1(R.workdir[p], "blob")]

stash_push(R) ==
    LET head_commit == get_head_commit(R)
        index_tree == read_index(R)
        workdir_tree == stash_workdir_tree(R)
        index_tree_sha == sha1(index_tree, "tree")
        workdir_tree_sha == sha1(workdir_tree, "tree")
        R1 == [R EXCEPT !.objects = @ \cup {workdir_tree[p] : p \in DOMAIN workdir_tree}
                                      \cup {index_tree_sha, workdir_tree_sha}]
        message == <<"Stash on", get_head_ref(R1)>>
        parents == <<head_commit, workdir_tree_sha>>
        stash_hash == create_commit_sha(R1, message, index_tree_sha, parents)
        R2 == create_commit(R1, message, index_tree_sha, parents)
        R3 == write_stash(R2, <<stash_hash>> \o read_stash(R2))
        R4 == checkout(R3, Hex(head_commit))
    IN  IF head_commit = None THEN Fail(R1, "TypeError")
        ELSE IF index_tree_sha = get_commit_tree(R1.objects, head_commit)
                /\ workdir_tree = index_tree
        THEN Ok(R1, "no changes")
        ELSE Ok(write_index(R4, get_tree_contents(R4.objects,
                                                   get_commit_tree(R4.objects, head_commit))),
                "saved")

\* Lines 432-439.
stash_list(R) == Ok(R, IF read_stash(R) = <<>> THEN "no stashes" ELSE "listed")

\* pop that drops the oldest entry where line 496 drops stashes[0].
stash_apply_drops_oldest(R, drop) ==
    LET stashes == read_stash(R)
        stash_hash == stashes[1]
        index_tree == get_tree_contents(R.objects, get_commit_tree(R.objects, stash_hash))
        R1 == write_index(R, index_tree)
        R2 == checkout(R1, Hex(get_head_commit(R1)))
    IN  IF stashes = <<>> THEN Fail(R, "no stash")
        ELSE IF get_head_commit(R1) = None THEN Fail(R1, "AttributeError")
        ELSE Ok(IF drop THEN write_stash(R2, SubSeq(stashes, 1, Len(stashes) - 1)) ELSE R2,
                "applied")

\* pop (drop = TRUE) and apply (drop = FALSE).
stash_apply(R, drop) ==
    LET stashes == read_stash(R)
        stash_hash == stashes[1]
        index_tree == get_tree_contents(R.objects, get_commit_tree(R.objects, stash_hash))
        R1 == write_index(R, index_tree)
        R2 == checkout(R1, Hex(get_head_commit(R1)))
    IN  IF stashes = <<>> THEN Fail(R, "no stash")
        ELSE IF get_head_commit(R1) = None THEN Fail(R1, "AttributeError")
        ELSE Ok(IF drop THEN write_stash(R2, Tail(stashes)) ELSE R2, "applied")

\* The commits to replay without the reverse() of line 606.
commits_to_replay_newest_first(objs, current_commit, target_commit, base_commit) ==
    LET target_history == get_full_history_set(objs, target_commit)
        walk == get_commit_history(objs, current_commit)
        stop == {i \in 1..Len(walk) : walk[i] \in target_history \/ walk[i] = base_commit}
        n == IF stop = {} THEN Len(walk) ELSE (CHOOSE i \in stop : \A j \in stop : i <= j) - 1
    IN  [i \in 1..n |-> walk[i]]

\* Lines 598-606: the commits to replay, oldest first.
commits_to_replay(objs, current_commit, target_commit, base_commit) ==
    LET target_history == get_full_history_set(objs, target_commit)
        walk == get_commit_history(objs, current_commit)
        stop == {i \in 1..Len(walk) : walk[i] \in target_history \/ walk[i] = base_commit}
        n == IF stop = {} THEN Len(walk) ELSE (CHOOSE i \in stop : \A j \in stop : i <= j) - 1
    IN  [i \in 1..n |-> walk[n + 1 - i]]

\* Lines 619-624: every file of the target tree is written; none is deleted.
rebase_files(R, target_tree) ==
    [p \in (DOMAIN R.workdir) \cup (DOMAIN target_tree) |->
        IF p \in DOMAIN target_tree THEN read_object(R.objects, target_tree[p]).content
        ELSE R.workdir[p]]

\* The replay loop with the target's entries winning over the replayed commit's.
RECURSIVE replay_target_wins(_, _, _, _)
replay_target_wins(R, todo, new_base, target_tree) ==
    IF todo = <<>> THEN [R |-> R, new_base |-> new_base]
    ELSE LET commit_sha == Head(todo)
             message == read_object(R.objects, commit_sha).content.message
             original_tree == get_tree_contents(R.objects, get_commit_tree(R.objects, commit_sha))
             combined_tree == Update(original_tree, target_tree)
             R1 == [R EXCEPT !.objects = hash_object(@, combined_tree, "tree")]
             new_commit == create_commit_sha(R1, message, sha1(combined_tree, "tree"), <<new_base>>)
             R2 == create_commit(R1, message, sha1(combined_tree, "tree"), <<new_base>>)
         IN  replay_target_wins(R2, Tail(todo), new_commit, combined_tree)

\* Lines 626-644.
RECURSIVE replay(_, _, _, _)
replay(R, todo, new_base, target_tree) ==
    IF todo = <<>> THEN [R |-> R, new_base |-> new_base]
    ELSE LET commit_sha == Head(todo)
             message == read_object(R.objects, commit_sha).content.message
             original_tree == get_tree_contents(R.objects, get_commit_tree(R.objects, commit_sha))
             combined_tree == Update(target_tree, original_tree)
             R1 == [R EXCEPT !.objects = hash_object(@, combined_tree, "tree")]
             new_commit == create_commit_sha(R1, message, sha1(combined_tree, "tree"), <<new_base>>)
             R2 == create_commit(R1, message, sha1(combined_tree, "tree"), <<new_base>>)
         IN  replay(R2, Tail(todo), new_commit, combined_tree)

\* rebase without the test of lines 574-577 for a detached HEAD.
rebase_any_head(R, target_branch) ==
    LET current_ref == get_head_ref(R)
        current_commit == get_head_commit(R)
        target_commit == get_branch_commit(R, target_branch)
        base_commit == find_common_ancestor(R.objects, current_commit, target_commit)
        todo == commits_to_replay(R.objects, current_commit, target_commit, base_commit)
        R1 == update_head(R, target_commit, TRUE)
        target_tree == get_tree_contents(R1.objects, get_commit_tree(R1.objects, target_commit))
        R2 == [R1 EXCEPT !.workdir = rebase_files(R1, target_tree)]
        r == replay(R2, todo, target_commit, target_tree)
        R3 == IF current_ref[1] = "ref"
              THEN [r.R EXCEPT !.heads = Put(@, current_ref[2], r.new_base)]
              ELSE [r.R EXCEPT !.stray = Put(@, current_ref[2], r.new_base)]
    IN  IF target_commit = None THEN Fail(R, "no branch")
        ELSE IF current_commit = target_commit THEN Ok(R, "up to date")
        ELSE IF base_commit = None THEN Fail(R, "no ancestor")
        ELSE IF todo = <<>> THEN Ok(R, "nothing to replay")
        ELSE Ok(checkout(R3, IF current_ref[1] = "ref" THEN Name(current_ref[2])
                             ELSE Hex(current_ref[2])), "rebased")

rebase(R, target_branch) ==
    LET current_ref == get_head_ref(R)
        current_commit == get_head_commit(R)
        target_commit == get_branch_commit(R, target_branch)
        base_commit == find_common_ancestor(R.objects, current_commit, target_commit)
        todo == commits_to_replay(R.objects, current_commit, target_commit, base_commit)
        R1 == update_head(R, target_commit, TRUE)
        target_tree == get_tree_contents(R1.objects, get_commit_tree(R1.objects, target_commit))
        R2 == [R1 EXCEPT !.workdir = rebase_files(R1, target_tree)]
        r == replay(R2, todo, target_commit, target_tree)
        R3 == [r.R EXCEPT !.heads = Put(@, current_ref[2], r.new_base)]
    IN  IF current_ref[1] # "ref" THEN Fail(R, "detached")
        ELSE IF target_commit = None THEN Fail(R, "no branch")
        ELSE IF current_commit = target_commit THEN Ok(R, "up to date")
        ELSE IF base_commit = None THEN Fail(R, "no ancestor")
        ELSE IF todo = <<>> THEN Ok(R, "nothing to replay")
        ELSE Ok(checkout(R3, Name(current_ref[2])), "rebased")

\* ---------------------------------------------------------------- the machine
Commits == {o \in objects : o[1] = "commit"}
NumCommits == Cardinality(Commits)

Idle == [cmd |-> "none", arg |-> None, rc |-> "ok", note |-> "none"]

\* One command: the repository it leaves, and what the observer records of it
\* (nothing when the command is not watched).
Run(watch, cmd, arg, R) ==
    \E r \in {R} :
        /\ objects' = r.objects
        /\ HEAD' = r.HEAD
        /\ refs_heads' = r.heads
        /\ refs_tags' = r.tags
        /\ refs_stash' = r.stash
        /\ index' = r.index
        /\ workdir' = r.workdir
        /\ stray' = r.stray
        /\ clock' = r.clock
        /\ UNCHANGED <<objects_dir, pending, writers>>
        /\ last' = IF watch THEN [cmd |-> cmd, arg |-> arg, rc |-> r.rc, note |-> r.note]
                   ELSE Idle

\* repository.py init(): HEAD -> refs/heads/main, an empty index, no object, no ref.
Init ==
    /\ objects = {}
    /\ HEAD = <<"ref", "main">>
    /\ refs_heads = EmptyDict
    /\ refs_tags = EmptyDict
    /\ refs_stash = <<>>
    /\ index = EmptyDict
    /\ workdir = EmptyDict
    /\ stray = EmptyDict
    /\ clock = 0
    /\ objects_dir = EmptyDict
    /\ pending = <<>>
    /\ writers = <<>>
    /\ last = Idle

\* The user edits a file of the working tree.
WriteFile(p, c) ==
    /\ ~(p \in DOMAIN workdir /\ workdir[p] = c)
    /\ workdir' = Put(workdir, p, c)
    /\ last' = Idle
    /\ UNCHANGED <<objects, HEAD, refs_heads, refs_tags, refs_stash, index, stray, clock,
                   objects_dir, pending, writers>>

Add(w, p) == Run(w, "add", Name(p), add(Repo, p))
Rm(w, p) == Run(w, "rm", Name(p), rm(Repo, p))
Commit(w, m) == Run(w, "commit", None, commit(Repo, <<"msg", m>>))
Checkout(w, n) == Run(w, "checkout", n, checkout(Repo, n))
Branch(w, b, s) == Run(w, "branch", Name(b), branch(Repo, b, s))
Tag(w, t, s, m) == Run(w, "tag", Name(t), tag(Repo, t, s, m))
Merge(w, b) == Run(w, "merge", Name(b), merge(Repo, Name(b)))
Rebase(w, b) == Run(w, "rebase", Name(b), rebase(Repo, Name(b)))
StashPush(w) == Run(w, "stash push", None, stash_push(Repo))
StashPop(w) == Run(w, "stash pop", None, stash_apply(Repo, TRUE))
StashApply(w) == Run(w, "stash apply", None, stash_apply(Repo, FALSE))
StashList(w) == Run(w, "stash list", None, stash_list(Repo))
ReInit(w) == Run(w, "init", None, init(Repo))
\* The argument recorded for status is the report it prints.
Status(w) == Run(w, "status", status_report(Repo), status(Repo))

\* The names a user can type for a commit: branch and tag names, HEAD, full ids.
CommitNames == {Name(s) : s \in BranchNames \cup TagNames \cup {"HEAD"}} \cup {Hex(o) : o \in Commits}

\* The commit objects after the step stay within the bound.
Within(max) == Cardinality({o \in objects' : o[1] = "commit"}) <= max

\* ---------------------------------------------------------------- observations
TreeOf(objs, commit_sha) == get_tree_contents(objs, get_commit_tree(objs, commit_sha))

CommitsOf(objs) == {o \in objs : o[1] = "commit"}

\* The step just taken is the watched command cmd with argument arg.
Ran(cmd, arg) == last'.cmd = cmd /\ last'.arg = arg

\* ---------------------------------------------------------------- all commands
\* The start points a user gives `branch` and `tag`: none (HEAD), a tag name, or
\* the id of a stored object that is not a commit.
StartPoints ==
    {None} \cup {Name(t) : t \in TagNames} \cup {Hex(o) : o \in {x \in objects : x[1] # "commit"}}

\* Every documented command over one file. commit and stash push create commits
\* up to MaxCommits; merge and rebase may create one more.
Next ==
    \/ \E f \in CoreFiles : WriteFile(f[1], f[2])
    \/ \E f \in CoreFiles : Add(FALSE, f[1])
    \/ \E f \in CoreFiles : Rm(FALSE, f[1])
    \/ \E m \in Messages : Commit(TRUE, m) /\ Within(MaxCommits)
    \/ \E n \in CommitNames : Checkout(FALSE, n)
    \/ \E b \in BranchNames, s \in StartPoints : Branch(FALSE, b, s)
    \/ \E t \in TagNames, s \in StartPoints, m \in TagMessages \cup {None} : Tag(FALSE, t, s, m)
    \/ \E b \in BranchNames : Merge(FALSE, b) /\ Within(MaxCommits + 1)
    \/ \E b \in BranchNames : Rebase(FALSE, b) /\ Within(MaxCommits + 1)
    \/ StashPush(FALSE) /\ Within(MaxCommits) /\ Len(refs_stash') <= MaxStash
    \/ StashPop(FALSE)
    \/ StashApply(FALSE)

Spec == Init /\ [][Next]_vars

\* C5: `commit -m M` run while the index is empty creates no commit object and leaves
\* HEAD, every branch ref, every tag ref and the index unchanged.
C5_EmptyIndexCommitIsNoOp ==
    [][(DOMAIN index = {} /\ Ran("commit", None))
       => (/\ CommitsOf(objects') = CommitsOf(objects)
           /\ objects' = objects
           /\ UNCHANGED <<HEAD, refs_heads, refs_tags, index>>)]_vars

\* commit has just found the index empty in a repository that has commits and refs.
C5_Witness ==
    /\ last.cmd = "commit"
    /\ last.note = "nothing"
    /\ DOMAIN index = {}
    /\ get_head_commit(Repo) # None
    /\ DOMAIN refs_tags # {}

\* C6: every refs/heads/<name> holds the id of a stored commit object and every
\* refs/tags/<name> holds the id of a stored commit or tag object.
C6_RefIntegrity ==
    /\ \A b \in DOMAIN refs_heads : refs_heads[b] \in objects /\ refs_heads[b][1] = "commit"
    /\ \A t \in DOMAIN refs_tags :
          refs_tags[t] \in objects /\ refs_tags[t][1] \in {"commit", "tag"}

\* A branch created from an annotated tag, a branch that holds a merge commit.
C6_Witness ==
    /\ \E t \in DOMAIN refs_tags : refs_tags[t][1] = "tag"
    /\ \E b \in DOMAIN refs_heads : Len(get_commit_parents(read_object(objects, refs_heads[b]))) = 2
    /\ DOMAIN refs_heads = BranchNames

\* C9: the first-parent walk from HEAD yields no commit id twice and at most as many
\* entries as there are commit objects; each entry after the first is the first
\* parent of its predecessor and was created before it; the last entry has no parent.
C9_FirstParentHistory ==
    LET walk == get_commit_history(objects, get_head_commit(Repo))
        body(i) == read_object(objects, walk[i]).content
    IN  /\ \A i, j \in 1..Len(walk) : walk[i] = walk[j] => i = j
        /\ Len(walk) <= NumCommits
        /\ \A i \in 1..Len(walk) : walk[i] \in Commits
        /\ \A i \in 2..Len(walk) :
              /\ walk[i] = body(i - 1).parents[1]
              /\ body(i).time < body(i - 1).time
        /\ walk # <<>> => body(Len(walk)).parents = <<None>>
        /\ (walk = <<>>) = (get_head_commit(Repo) = None)

\* HEAD is at a two-parent merge commit whose first-parent line has three entries.
C9_Witness ==
    LET walk == get_commit_history(objects, get_head_commit(Repo)) IN
    /\ Len(walk) = 3
    /\ Len(get_commit_parents(read_object(objects, walk[1]))) = 2
    /\ NumCommits = 4

\* ---------------------------------------------------------------- merge
NextMerge ==
    \/ \E f \in FileInputs : WriteFile(f[1], f[2])
    \/ \E p \in Paths : Add(FALSE, p)
    \/ \E p \in Paths : Rm(FALSE, p)
    \/ \E m \in Messages : Commit(FALSE, m) /\ Within(MaxCommits)
    \/ \E b \in BranchNames : Checkout(FALSE, Name(b))
    \/ \E b \in BranchNames : Branch(FALSE, b, None)
    \/ \E b \in BranchNames : Merge(TRUE, b) /\ Within(MaxCommits)

SpecMerge == Init /\ [][NextMerge]_vars

\* C1: a fast-forward `merge b` (HEAD attached to branch X at H, b at O # H, H an
\* ancestor of O) sets refs/heads/X to O, leaves HEAD attached to X, adds no commit
\* object and leaves the files of O's tree on disk.
C1_FastForwardMovesHeadBranch ==
    [][\A b \in BranchNames :
        (/\ HEAD[1] = "ref"
         /\ HEAD[2] \in DOMAIN refs_heads
         /\ b \in DOMAIN refs_heads
         /\ refs_heads[b] # refs_heads[HEAD[2]]
         /\ refs_heads[HEAD[2]] \in get_full_history_set(objects, refs_heads[b])
         /\ Ran("merge", Name(b)))
        => (/\ HEAD' = HEAD
            /\ refs_heads'[HEAD[2]] = refs_heads[b]
            /\ CommitsOf(objects') = CommitsOf(objects)
            /\ \A p \in DOMAIN TreeOf(objects, refs_heads[b]) :
                   /\ p \in DOMAIN workdir'
                   /\ sha1(workdir'[p], "blob") = TreeOf(objects, refs_heads[b])[p])]_vars

\* The paths whose blob ids in the base, HEAD and other trees are pairwise different.
ConflictedPaths(objs, base_commit, head_commit, other_commit) ==
    LET b == TreeOf(objs, base_commit)
        h == TreeOf(objs, head_commit)
        o == TreeOf(objs, other_commit)
    IN  {p \in (DOMAIN b) \cup (DOMAIN h) \cup (DOMAIN o) :
            Get(b, p) # Get(h, p) /\ Get(h, p) # Get(o, p) /\ Get(b, p) # Get(o, p)}

\* `merge b` from this state is a three-way merge (neither commit is an ancestor of
\* the other and they have a common ancestor) with at least one conflicted path.
ConflictingMerge(b) ==
    LET H == get_head_commit(Repo)
        O == Get(refs_heads, b)
    IN  /\ H # None
        /\ O # None
        /\ O \notin get_full_history_set(objects, H)
        /\ H \notin get_full_history_set(objects, O)
        /\ find_common_ancestor(objects, H, O) # None
        /\ ConflictedPaths(objects, find_common_ancestor(objects, H, O), H, O) # {}

\* C2: a three-way merge that finds a conflicted path exits non-zero, creates no
\* commit object and leaves HEAD and every branch ref as they were.
C2_ConflictLeavesRefs ==
    [][\A b \in BranchNames :
        (ConflictingMerge(b) /\ Ran("merge", Name(b)))
        => (/\ last'.rc = "fail"
            /\ CommitsOf(objects') = CommitsOf(objects)
            /\ HEAD' = HEAD
            /\ refs_heads' = refs_heads)]_vars

\* A conflicting merge has just failed, with its markers written and staged.
C2_Witness ==
    /\ last.cmd = "merge"
    /\ last.rc = "fail"
    /\ last.note = "conflict"
    /\ \E p \in DOMAIN index : index[p][2][1] = 60 /\ workdir[p] = index[p][2]

\* ---------------------------------------------------------------- checkout
NextCheckout ==
    \/ \E f \in FileInputs : WriteFile(f[1], f[2])
    \/ \E p \in Paths : Add(FALSE, p)
    \/ \E m \in Messages : Commit(FALSE, m) /\ Within(MaxCommits)
    \/ \E b \in BranchNames : Branch(FALSE, b, None)
    \/ \E n \in CommitNames : Checkout(TRUE, n)

SpecCheckout == Init /\ [][NextCheckout]_vars

\* The working tree as a tree: each file's path mapped to the id of its content.
WorkTree(wd) == [p \in DOMAIN wd |-> sha1(wd[p], "blob")]

\* C3 as stated: after any successful checkout the tree of HEAD's commit, the index
\* and the working tree (paths mapped to content hashes) are all equal.
C3_ThreeTreeLaw ==
    (last.cmd = "checkout" /\ last.rc = "ok")
    => (/\ index = TreeOf(objects, get_head_commit(Repo))
        /\ WorkTree(workdir) = TreeOf(objects, get_head_commit(Repo)))

\* C3 amended: after a successful checkout the tree of HEAD's commit equals the
\* index, every path of that tree is on disk with its blob's content, every path of
\* the previous HEAD tree that is not in it is gone, and a file in neither tree is
\* left as it was.
C3_CheckoutTrees ==
    [][(last'.cmd = "checkout" /\ last'.rc = "ok")
       => LET old == TreeOf(objects, get_head_commit(Repo))
              new == TreeOf(objects', IF HEAD'[1] = "sha" THEN HEAD'[2]
                                      ELSE Get(refs_heads', HEAD'[2]))
          IN  /\ index' = new
              /\ \A p \in DOMAIN new :
                    p \in DOMAIN workdir' /\ sha1(workdir'[p], "blob") = new[p]
              /\ \A p \in (DOMAIN old) \ (DOMAIN new) : p \notin DOMAIN workdir'
              /\ \A p \in Paths \ ((DOMAIN old) \cup (DOMAIN new)) :
                    /\ (p \in DOMAIN workdir') = (p \in DOMAIN workdir)
                    /\ p \in DOMAIN workdir => workdir'[p] = workdir[p]]_vars

\* A checkout has just succeeded and left a file on disk that HEAD's tree lacks.
C3_Witness ==
    /\ last.cmd = "checkout"
    /\ last.rc = "ok"
    /\ last.arg = Name("main")
    /\ DOMAIN TreeOf(objects, get_head_commit(Repo)) # {}
    /\ \E p \in DOMAIN workdir : p \notin DOMAIN TreeOf(objects, get_head_commit(Repo))

\* ---------------------------------------------------------------- stash
NextStash ==
    \/ \E f \in FileInputs : WriteFile(f[1], f[2])
    \/ \E p \in Paths : Add(FALSE, p)
    \/ \E m \in Messages : Commit(FALSE, m) /\ Within(MaxCommits)
    \/ StashPush(TRUE) /\ Within(MaxCommits)
    \/ StashPop(TRUE)
    \/ StashApply(TRUE)

SpecStash == Init /\ [][NextStash]_vars

\* C4 as stated: a stash push that saved index I and tracked working files W,
\* immediately followed by stash pop or stash apply, leaves the index equal to I (the
\* stash commit's tree) and every file of W (the tree named by its second parent)
\* on disk with its saved content.
C4_StashRoundTrip ==
    [][(/\ last.cmd = "stash push"
        /\ last.note = "saved"
        /\ (Ran("stash pop", None) \/ Ran("stash apply", None)))
       => LET stash_hash == refs_stash[1]
              I == TreeOf(objects, stash_hash)
              W == get_tree_contents(objects, read_object(objects, stash_hash).content.parents[2])
          IN  /\ index' = I
              /\ \A p \in DOMAIN W :
                    p \in DOMAIN workdir' /\ sha1(workdir'[p], "blob") = W[p]]_vars

\* ---------------------------------------------------------------- commit DAGs
\* commit, branch, checkout and merge over one file: every tree is the same, so
\* every three-way merge is clean and the states differ by their commit DAGs.
NextDag ==
    \/ \E f \in CoreFiles : WriteFile(f[1], f[2])
    \/ \E f \in CoreFiles : Add(FALSE, f[1])
    \/ \E m \in Messages : Commit(FALSE, m) /\ Within(MaxDagCommits)
    \/ \E b \in BranchNames : Branch(FALSE, b, None)
    \/ \E n \in CommitNames : Checkout(FALSE, n)
    \/ \E b \in BranchNames : Merge(FALSE, b) /\ Within(MaxDagCommits + 1)

SpecDag == Init /\ [][NextDag]_vars

\* The parent edges of the object store, and their reflexive transitive closure.
parent_edges(objs, S) ==
    UNION {{p \in objs : \E i \in 1..Len(get_commit_parents(read_object(objs, c))) :
                            get_commit_parents(read_object(objs, c))[i] = p} : c \in S}

RECURSIVE closure(_, _)
closure(objs, S) ==
    IF parent_edges(objs, S) \subseteq S THEN S ELSE closure(objs, S \cup parent_edges(objs, S))

ancestor_set(objs, c) == closure(objs, {c})

\* `merge b` from this state is a three-way merge with a merge base.
ThreeWayMerge(b) ==
    LET H == get_head_commit(Repo)
        O == Get(refs_heads, b)
    IN  /\ H # None
        /\ O # None
        /\ O \notin ancestor_set(objects, H)
        /\ H \notin ancestor_set(objects, O)
        /\ find_common_ancestor(objects, H, O) # None

\* C8 as stated, for the pairs merge uses: the commit find_common_ancestor(HEAD, b)
\* returns as the three-way merge base has no proper descendant that is also a
\* common ancestor of the two commits.
C8_MergeBaseIsLowest ==
    \A b \in DOMAIN refs_heads :
        ThreeWayMerge(b)
        => LET H == get_head_commit(Repo)
               O == refs_heads[b]
               base == find_common_ancestor(objects, H, O)
           IN  \A d \in ancestor_set(objects, H) \cap ancestor_set(objects, O) :
                   d # base => base \notin ancestor_set(objects, d)

\* ---------------------------------------------------------------- find_common_ancestor
\* The function applied to every pair of commits of every bounded commit graph:
\* commits with no, one or two parents among the commits created before them, so
\* graphs with several roots and with merge commits are among them.
dag_blob == sha1(<<1>>, "blob")
dag_tree == sha1(Put(EmptyDict, "a.txt", dag_blob), "tree")

dag_commit(time, parents) ==
    sha1([tree |-> dag_tree, parents |-> IF parents = <<>> THEN <<None>> ELSE parents,
          time |-> time, message |-> <<"msg", "m">>], "commit")

parent_lists(s) ==
    {<<>>} \cup {<<s[i]>> : i \in 1..Len(s)}
           \cup {<<s[i[1]], s[i[2]]>> : i \in {x \in (1..Len(s)) \X (1..Len(s)) : x[1] # x[2]}}

RECURSIVE dags(_)
dags(k) ==
    IF k = 0 THEN {<<>>}
    ELSE UNION {{Append(s, dag_commit(k - 1, ps)) : ps \in parent_lists(s)} : s \in dags(k - 1)}

InitLca ==
    \E k \in 1..MaxLcaCommits : \E s \in dags(k) :
        /\ objects = {s[i] : i \in 1..Len(s)} \cup {dag_tree, dag_blob}
        /\ HEAD = <<"sha", s[Len(s)]>>
        /\ refs_heads = EmptyDict
        /\ refs_tags = EmptyDict
        /\ refs_stash = <<>>
        /\ index = Put(EmptyDict, "a.txt", dag_blob)
        /\ workdir = Put(EmptyDict, "a.txt", <<1>>)
        /\ stray = EmptyDict
        /\ clock = k
        /\ objects_dir = EmptyDict
        /\ pending = <<>>
        /\ writers = <<>>
        /\ last = Idle

\* find_common_ancestor reads the store and writes nothing.
FindCommonAncestor(a, b) ==
    /\ last' = [cmd |-> "find_common_ancestor",
                arg |-> <<a, b, find_common_ancestor(objects, a, b)>>,
                rc |-> "ok", note |-> "returned"]
    /\ UNCHANGED <<objects, HEAD, refs_heads, refs_tags, refs_stash, index, workdir, stray,
                   clock, objects_dir, pending, writers>>

NextLca == \E a, b \in Commits : FindCommonAncestor(a, b)

SpecLca == InitLca /\ [][NextLca]_vars

\* C7: find_common_ancestor(a, b) returns a member of ancestor_set(a) \cap
\* ancestor_set(b) whenever that set is not empty, returns None only when it is
\* empty, and leaves the object store, the refs, the index and the files alone.
C7_LcaMembership ==
    [][last'.cmd = "find_common_ancestor"
       => LET a == last'.arg[1]
              b == last'.arg[2]
              r == last'.arg[3]
              common == ancestor_set(objects, a) \cap ancestor_set(objects, b)
          IN  /\ common # {} => r \in common
              /\ r = None => common = {}
              /\ UNCHANGED <<objects, HEAD, refs_heads, refs_tags, refs_stash, index,
                             workdir, stray>>]_vars

\* The function has returned a common ancestor of two commits neither of which is
\* an ancestor of the other, one of them a merge commit.
C7_Witness ==
    /\ last.cmd = "find_common_ancestor"
    /\ last.arg[3] # None
    /\ last.arg[1] \notin ancestor_set(objects, last.arg[2])
    /\ last.arg[2] \notin ancestor_set(objects, last.arg[1])
    /\ Len(get_commit_parents(read_object(objects, last.arg[2]))) = 2

\* ---------------------------------------------------------------- objects.py, byte by byte
\* hash_object and read_object on byte strings: the header, the digest of header
\* and data, the compressed file, and the parse that read_object makes of it.
Kinds == {"blob", "tree", "commit", "tag"}
Bytes == {0, 49}

\* str.encode() of the four kinds.
encode(obj_type) ==
    CASE obj_type = "blob" -> <<98, 108, 111, 98>>
      [] obj_type = "tree" -> <<116, 114, 101, 101>>
      [] obj_type = "commit" -> <<99, 111, 109, 109, 105, 116>>
      [] obj_type = "tag" -> <<116, 97, 103>>

\* The decimal digits of len(data), as f'{len(data)}' writes them.
RECURSIVE decimal(_)
decimal(n) == IF n < 10 THEN <<48 + n>> ELSE decimal(n \div 10) \o <<48 + (n % 10)>>

\* f'{obj_type} {len(data)}\0'.encode()
header_bytes(data, obj_type) == encode(obj_type) \o <<32>> \o decimal(Len(data)) \o <<0>>

\* hashlib.sha1(...).hexdigest(): one id per byte string, no two byte strings share one.
hexdigest(bytes) == <<"sha1", bytes>>

\* zlib: an encoding that decompress inverts.
zlib_compress(bytes) == [i \in 1..Len(bytes) |-> 255 - bytes[i]]
zlib_decompress(bytes) == [i \in 1..Len(bytes) |-> 255 - bytes[i]]

\* hash_object that digests the data without its header.
hash_object_of_data_alone(dir, data, obj_type) ==
    LET full_data == header_bytes(data, obj_type) \o data
        id == hexdigest(data)
    IN  [sha1 |-> id,
         dir |-> IF id \in DOMAIN dir THEN dir ELSE Put(dir, id, zlib_compress(full_data))]

\* objects.py 28-41: the id, and the directory after the call.
hash_object_bytes(dir, data, obj_type) ==
    LET full_data == header_bytes(data, obj_type) \o data
        id == hexdigest(full_data)
    IN  [sha1 |-> id,
         dir |-> IF id \in DOMAIN dir THEN dir ELSE Put(dir, id, zlib_compress(full_data))]

\* bytes.find(b'\0'): the 0-based position of the first NUL, -1 when there is none.
find_nul(bytes) ==
    IF \E i \in 1..Len(bytes) : bytes[i] = 0
    THEN (CHOOSE i \in 1..Len(bytes) : bytes[i] = 0 /\ \A j \in 1..(i - 1) : bytes[j] # 0) - 1
    ELSE -1

\* header.split(' ')
RECURSIVE split_space(_, _)
split_space(bytes, part) ==
    IF bytes = <<>> THEN <<part>>
    ELSE IF Head(bytes) = 32 THEN <<part>> \o split_space(Tail(bytes), <<>>)
    ELSE split_space(Tail(bytes), Append(part, Head(bytes)))

\* objects.py 8-25: (None, None) for a missing file; ValueError when the header
\* does not split in two.
read_object_bytes(dir, sha1_id) ==
    IF sha1_id \notin DOMAIN dir THEN [type |-> None, content |-> None]
    ELSE LET decompressed_data == zlib_decompress(dir[sha1_id])
             header_end == find_nul(decompressed_data)
             header == IF header_end >= 0 THEN SubSeq(decompressed_data, 1, header_end)
                       ELSE SubSeq(decompressed_data, 1, Len(decompressed_data) - 1)
             content == SubSeq(decompressed_data, header_end + 2, Len(decompressed_data))
             parts == split_space(header, <<>>)
         IN  IF Len(parts) # 2 THEN [type |-> <<"ValueError">>, content |-> None]
             ELSE [type |-> parts[1], content |-> content]

RECURSIVE byte_strings(_)
byte_strings(n) ==
    IF n = 0 THEN {<<>>}
    ELSE byte_strings(n - 1) \cup {Append(b, x) : b \in byte_strings(n - 1), x \in Bytes}

HashObject(data, obj_type) ==
    LET h == hash_object_bytes(objects_dir, data, obj_type) IN
    /\ Cardinality(DOMAIN h.dir) <= MaxObjects
    /\ objects_dir' = h.dir
    /\ last' = [cmd |-> "hash_object", arg |-> <<obj_type, data, h.sha1>>, rc |-> "ok",
                note |-> IF h.sha1 \in DOMAIN objects_dir THEN "exists" ELSE "written"]
    /\ UNCHANGED <<objects, HEAD, refs_heads, refs_tags, refs_stash, index, workdir, stray, clock,
                   pending, writers>>

ReadObject(sha1_id) ==
    /\ last' = [cmd |-> "read_object", arg |-> <<sha1_id, read_object_bytes(objects_dir, sha1_id)>>,
                rc |-> "ok", note |-> "read"]
    /\ UNCHANGED <<objects, HEAD, refs_heads, refs_tags, refs_stash, index, workdir, stray, clock,
                   objects_dir, pending, writers>>

NextStore ==
    \/ \E data \in byte_strings(MaxDataLen), obj_type \in Kinds : HashObject(data, obj_type)
    \/ \E sha1_id \in DOMAIN objects_dir : ReadObject(sha1_id)

SpecStore == Init /\ [][NextStore]_vars

\* C10: after hash_object(b, kind) returns an id, read_object(id) is (kind, b); the
\* id is the one the same call returns on an empty store; a stored id keeps the
\* bytes it had, so every stored id reads back as the kind and content that hash
\* to it.
C10_ContentAddressing ==
    [][/\ last'.cmd = "hash_object"
          => LET kind == last'.arg[1]
                 b == last'.arg[2]
                 id == last'.arg[3]
             IN  /\ read_object_bytes(objects_dir', id) = [type |-> encode(kind), content |-> b]
                 /\ id = hash_object_bytes(EmptyDict, b, kind).sha1
       /\ last'.cmd = "read_object"
          => \E kind \in Kinds, b \in byte_strings(MaxDataLen) :
                /\ last'.arg[2] = [type |-> encode(kind), content |-> b]
                /\ last'.arg[1] = hash_object_bytes(EmptyDict, b, kind).sha1
       /\ \A id \in DOMAIN objects_dir :
             id \in DOMAIN objects_dir' /\ objects_dir'[id] = objects_dir[id]]_vars

\* hash_object has just found its id stored already, for data that holds a NUL
\* byte, in a store that also holds the same data under another kind.
C10_Witness ==
    /\ last.cmd = "hash_object"
    /\ last.note = "exists"
    /\ \E i \in 1..Len(last.arg[2]) : last.arg[2][i] = 0
    /\ \E kind \in Kinds \ {last.arg[1]} :
          hash_object_bytes(EmptyDict, last.arg[2], kind).sha1 \in DOMAIN objects_dir

\* C12: a commit with a non-empty index creates exactly one commit, whose tree is
\* the index mapping and whose only parent is the previous HEAD commit (none for the
\* first commit); an attached HEAD stays as it is and its branch takes the new id, a
\* detached HEAD becomes the new id and no branch moves; and the first commit of a
\* fresh repository is refs/heads/main and the whole history of HEAD.
C12_CommitCreation ==
    [][(Ran("commit", None) /\ DOMAIN index # {})
       => LET P == get_head_commit(Repo)
              New == CommitsOf(objects') \ CommitsOf(objects)
          IN  \E c \in New :
                /\ New = {c}
                /\ last'.rc = "ok"
                /\ c[2].tree = sha1(index, "tree")
                /\ c[2].tree \in objects'
                /\ TreeOf(objects', c) = index
                /\ c[2].parents = IF P = None THEN <<None>> ELSE <<P>>
                /\ get_commit_parents(read_object(objects', c)) = IF P = None THEN <<>> ELSE <<P>>
                /\ IF HEAD[1] = "ref"
                   THEN HEAD' = HEAD /\ refs_heads' = Put(refs_heads, HEAD[2], c)
                   ELSE HEAD' = <<"sha", c>> /\ refs_heads' = refs_heads
                /\ (CommitsOf(objects) = {} /\ HEAD = <<"ref", "main">>)
                   => /\ refs_heads'["main"] = c
                      /\ get_commit_history(objects', get_head_commit([Repo EXCEPT !.heads = refs_heads']))
                         = <<c>>]_vars

\* A commit has just been made on a detached HEAD, on top of an earlier commit.
C12_Witness ==
    /\ last.cmd = "commit"
    /\ last.note = "committed"
    /\ HEAD[1] = "sha"
    /\ HEAD[2][2].parents # <<None>>
    /\ HEAD[2] \notin {refs_heads[b] : b \in DOMAIN refs_heads}

\* C13: after a successful checkout of an existing branch X, every path of the
\* previous HEAD commit's tree that is not in the tree of X's commit is absent from
\* the working directory, and every path of X's tree is there with its blob's content.
C13_BranchIsolation ==
    [][\A X \in BranchNames :
        (Ran("checkout", Name(X)) /\ X \in DOMAIN refs_heads /\ last'.rc = "ok")
        => LET old == TreeOf(objects, get_head_commit(Repo))
               new == TreeOf(objects, refs_heads[X])
           IN  /\ \A p \in (DOMAIN old) \ (DOMAIN new) : p \notin DOMAIN workdir'
               /\ \A p \in DOMAIN new :
                     /\ p \in DOMAIN workdir'
                     /\ workdir'[p] = read_object(objects, new[p]).content]_vars

\* main has just been checked out; a file committed on feature only is not on disk
\* and a file of main's tree is.
C13_Witness ==
    /\ last.cmd = "checkout"
    /\ last.arg = Name("main")
    /\ last.rc = "ok"
    /\ "feature" \in DOMAIN refs_heads
    /\ "main" \in DOMAIN refs_heads
    /\ LET main == TreeOf(objects, refs_heads["main"])
           feature == TreeOf(objects, refs_heads["feature"])
       IN  /\ \E p \in (DOMAIN feature) \ (DOMAIN main) : p \notin DOMAIN workdir
           /\ \E p \in DOMAIN main : p \in DOMAIN workdir

\* C15 as stated: stash push, stash pop, stash apply, add, rm, branch and tag leave
\* HEAD exactly as it was; a HEAD attached to branch X is still attached to X after
\* a stash push or a stash pop.
C15_HeadFrame ==
    [][(last'.cmd \in {"stash push", "stash pop", "stash apply", "add", "rm", "branch", "tag"})
       => HEAD' = HEAD]_vars

\* ---------------------------------------------------------------- the stash list
NextStashList ==
    \/ \E f \in FileInputs : WriteFile(f[1], f[2])
    \/ \E p \in Paths : Add(FALSE, p)
    \/ \E m \in Messages : Commit(FALSE, m) /\ Within(MaxCommits)
    \/ StashPush(TRUE) /\ Within(MaxCommits)
    \/ StashPop(TRUE)
    \/ StashApply(TRUE)
    \/ StashList(TRUE)

SpecStashList == Init /\ [][NextStashList]_vars

\* C17: a stash push that saves puts the new stash commit at position 0 of refs/stash
\* in front of the earlier entries in their order; stash pop removes exactly entry 0;
\* stash apply and stash list leave the list as it is; pop and apply on an empty list
\* fail and change nothing.
C17_StashLifo ==
    [][/\ (Ran("stash push", None) /\ last'.note = "saved")
          => \E c \in CommitsOf(objects') \ CommitsOf(objects) : refs_stash' = <<c>> \o refs_stash
       /\ (Ran("stash push", None) /\ last'.note # "saved") => refs_stash' = refs_stash
       /\ (Ran("stash pop", None) /\ refs_stash # <<>>)
          => last'.rc = "ok" /\ refs_stash' = Tail(refs_stash)
       /\ (Ran("stash apply", None) \/ Ran("stash list", None))
          => refs_stash' = refs_stash
       /\ (Ran("stash apply", None) /\ refs_stash # <<>>) => last'.rc = "ok"
       /\ ((Ran("stash pop", None) \/ Ran("stash apply", None)) /\ refs_stash = <<>>)
          => /\ last'.rc = "fail"
             /\ UNCHANGED <<objects, HEAD, refs_heads, refs_tags, refs_stash, index, workdir,
                            stray>>]_vars

\* A stash push has just put a second entry on the list, in front of the older one.
C17_Witness ==
    /\ last.cmd = "stash push"
    /\ last.note = "saved"
    /\ Len(refs_stash) = 2
    /\ refs_stash[1][2].time > refs_stash[2][2].time

\* ---------------------------------------------------------------- status and rm
NextStatus ==
    \/ \E f \in FileInputs : WriteFile(f[1], f[2])
    \/ \E p \in Paths : Add(FALSE, p)
    \/ \E p \in Paths : Rm(TRUE, p)
    \/ \E m \in Messages : Commit(FALSE, m) /\ Within(MaxCommits)
    \/ Status(TRUE)

SpecStatus == Init /\ [][NextStatus]_vars

\* C18: status reports a path as staged-modified exactly when it is in HEAD's tree
\* and in the index with different blob ids, as unstaged-modified exactly when it is
\* in the index and on disk with a content hash other than its index blob id, and as
\* untracked exactly when it is on disk and not in the index; so a committed file
\* changed on disk is unstaged-modified with nothing staged, and once added it is
\* staged-modified and not unstaged-modified.
C18_StatusClassification ==
    [][(last'.cmd = "status")
       => LET report == last'.arg
              head == TreeOf(objects, get_head_commit(Repo))
          IN  /\ \A p \in Paths :
                    /\ (p \in report.staged_modified)
                       <=> (p \in DOMAIN head /\ p \in DOMAIN index /\ head[p] # index[p])
                    /\ (p \in report.unstaged_modified)
                       <=> (/\ p \in DOMAIN index
                            /\ p \in DOMAIN workdir
                            /\ sha1(workdir[p], "blob") # index[p])
                    /\ (p \in report.untracked_files)
                       <=> (p \in DOMAIN workdir /\ p \notin DOMAIN index)
              /\ report.staged_modified \cup report.unstaged_modified
                    \cup report.untracked_files \subseteq Paths
              /\ \A p \in DOMAIN head :
                    /\ (index = head /\ p \in DOMAIN workdir
                        /\ sha1(workdir[p], "blob") # head[p])
                       => /\ p \in report.unstaged_modified
                          /\ report.staged_added = {}
                          /\ report.staged_modified = {}
                          /\ report.staged_deleted = {}
                    /\ (p \in DOMAIN workdir /\ sha1(workdir[p], "blob") # head[p]
                        /\ Get(index, p) = sha1(workdir[p], "blob"))
                       => /\ p \in report.staged_modified
                          /\ p \notin report.unstaged_modified]_vars

\* status has just reported a committed file whose new content is staged as
\* staged-modified and not as unstaged-modified, next to an untracked file.
C18_Witness ==
    /\ last.cmd = "status"
    /\ "a.txt" \in last.arg.staged_modified
    /\ "a.txt" \notin last.arg.unstaged_modified
    /\ "b.txt" \in last.arg.untracked_files
    /\ "a.txt" \in DOMAIN workdir
    /\ index["a.txt"] = sha1(workdir["a.txt"], "blob")

\* C19: rm of a path in the index removes its key from the index and its file from
\* the working tree and succeeds, and a path of HEAD's tree is then a staged
\* deletion for status; rm of a path not in the index fails and leaves the index and
\* the working tree as they were; either way HEAD, the refs and the object store
\* are unchanged.
C19_Rm ==
    [][\A p \in Paths :
        Ran("rm", Name(p))
        => /\ IF p \in DOMAIN index
              THEN /\ last'.rc = "ok"
                   /\ DOMAIN index' = (DOMAIN index) \ {p}
                   /\ \A q \in DOMAIN index' : index'[q] = index[q]
                   /\ DOMAIN workdir' = (DOMAIN workdir) \ {p}
                   /\ \A q \in DOMAIN workdir' : workdir'[q] = workdir[q]
                   /\ p \in DOMAIN TreeOf(objects, get_head_commit(Repo))
                      => p \in status_report([Repo EXCEPT !.index = index',
                                                          !.workdir = workdir']).staged_deleted
              ELSE /\ last'.rc = "fail"
                   /\ index' = index
                   /\ workdir' = workdir
           /\ UNCHANGED <<objects, HEAD, refs_heads, refs_tags, refs_stash>>]_vars

\* rm has just removed a committed file: it is in HEAD's tree and neither in the
\* index nor on disk.
C19_Witness ==
    /\ last.cmd = "rm"
    /\ last.rc = "ok"
    /\ last.arg = Name("a.txt")
    /\ "a.txt" \in DOMAIN TreeOf(objects, get_head_commit(Repo))
    /\ "a.txt" \notin DOMAIN index
    /\ "a.txt" \notin DOMAIN workdir
    /\ "a.txt" \in status_report(Repo).staged_deleted

\* ---------------------------------------------------------------- checkout of branches, tags and ids
\* One content per path: the trees differ by their paths.
RefFiles == {<<"a.txt", <<1>>>>, <<"b.txt", <<1>>>>}

NextCheckoutRefs ==
    \/ \E f \in RefFiles : WriteFile(f[1], f[2])
    \/ \E p \in Paths : Add(FALSE, p)
    \/ \E m \in Messages : Commit(FALSE, m) /\ Within(MaxCommits)
    \/ \E b \in BranchNames : Branch(FALSE, b, None)
    \/ \E t \in TagNames, s \in StartPoints, m \in TagMessages \cup {None} : Tag(FALSE, t, s, m)
    \/ \E n \in CommitNames : Checkout(TRUE, n)

SpecCheckoutRefs == Init /\ [][NextCheckoutRefs]_vars

\* The commit a name that is not a branch stands for: the id itself, the commit a
\* tag points at (directly, or through its tag object), or HEAD's commit.
NamedCommit(n) ==
    IF IsHex(n) THEN n[2]
    ELSE IF n[2] \in DOMAIN refs_tags
         THEN IF refs_tags[n[2]][1] = "tag" THEN refs_tags[n[2]][2].object ELSE refs_tags[n[2]]
         ELSE get_head_commit(Repo)

\* C14: after a successful checkout of a name, HEAD is attached to refs/heads/<name>
\* if the name is an existing branch, and is otherwise the detached id of the commit
\* the name resolves to; no branch ref and no tag ref changes.
C14_CheckoutHeadPolicy ==
    [][(last'.cmd = "checkout" /\ last'.rc = "ok")
       => LET n == last'.arg IN
          /\ IF ~IsHex(n) /\ n[2] \in DOMAIN refs_heads
             THEN HEAD' = <<"ref", n[2]>>
             ELSE HEAD' = <<"sha", NamedCommit(n)>> /\ NamedCommit(n) \in CommitsOf(objects)
          /\ refs_heads' = refs_heads
          /\ refs_tags' = refs_tags]_vars

\* An annotated tag has just been checked out from a branch: HEAD is the detached id
\* of the tagged commit, which is not the commit HEAD's branch was at.
C14_Witness ==
    /\ last.cmd = "checkout"
    /\ last.rc = "ok"
    /\ last.arg = Name("v1")
    /\ "v1" \in DOMAIN refs_tags
    /\ refs_tags["v1"][1] = "tag"
    /\ HEAD = <<"sha", refs_tags["v1"][2].object>>
    /\ \E b \in DOMAIN refs_heads : refs_heads[b] # HEAD[2]

\* ---------------------------------------------------------------- rebase
\* Two messages, so that the order of the replayed commits shows.
NextRebase ==
    \/ \E f \in RefFiles : WriteFile(f[1], f[2])
    \/ \E f \in RefFiles : Add(FALSE, f[1])
    \/ \E m \in RebaseMessages : Commit(FALSE, m) /\ Within(MaxRebaseCommits)
    \/ \E b \in BranchNames : Branch(FALSE, b, None)
    \/ \E b \in BranchNames : Checkout(FALSE, Name(b))
    \/ \E b \in BranchNames : Rebase(TRUE, b) /\ Within(MaxRebaseCommits + 2)

SpecRebase == Init /\ [][NextRebase]_vars

\* The commits on the first-parent walk from c that come before the first ancestor
\* of t (t included), newest first.
ReplayList(objs, c, t) ==
    LET walk == get_commit_history(objs, c)
        stop == {i \in 1..Len(walk) : walk[i] \in ancestor_set(objs, t)}
        n == IF stop = {} THEN Len(walk) ELSE (CHOOSE i \in stop : \A j \in stop : i <= j) - 1
    IN  SubSeq(walk, 1, n)

\* C16: a rebase of branch X onto T that replays a non-empty list R leaves
\* refs/heads/X at a tip whose first-parent walk is |R| commits created by the rebase,
\* each with one parent and with the messages of R in R's order, then T's commit;
\* HEAD is attached to X and refs/heads/T is unchanged.
C16_RebaseResult ==
    [][\A T \in BranchNames :
        (Ran("rebase", Name(T)) /\ last'.note = "rebased")
        => LET X == HEAD[2]
               R == ReplayList(objects, refs_heads[X], refs_heads[T])
               n == Len(R)
               walk == get_commit_history(objects', refs_heads'[X])
           IN  /\ HEAD[1] = "ref"
               /\ n > 0
               /\ Len(walk) > n
               /\ \A i \in 1..n :
                     /\ walk[i] \notin objects
                     /\ walk[i][2].parents = <<walk[i + 1]>>
                     /\ walk[i][2].message = R[i][2].message
               /\ walk[n + 1] = refs_heads[T]
               /\ CommitsOf(objects') \ CommitsOf(objects) = {walk[i] : i \in 1..n}
               /\ \A i, j \in 1..n : i # j => walk[i] # walk[j]
               /\ HEAD' = <<"ref", X>>
               /\ refs_heads'[T] = refs_heads[T]
               /\ last'.rc = "ok"]_vars

\* A rebase has just replayed two commits with different messages: the branch's tip
\* and its parent carry them and sit on top of the other branch's commit.
C16_Witness ==
    /\ last.cmd = "rebase"
    /\ last.note = "rebased"
    /\ HEAD[1] = "ref"
    /\ \E T \in DOMAIN refs_heads :
          LET walk == get_commit_history(objects, get_head_commit(Repo)) IN
          /\ T # HEAD[2]
          /\ Len(walk) >= 3
          /\ walk[3] = refs_heads[T]
          /\ walk[1][2].message # walk[2][2].message
          /\ walk[3][2].parents # <<None>>

\* The name stands for a commit: an existing branch, a tag that leads to a commit,
\* HEAD with a commit, or the id of a stored commit.
Resolvable(n) ==
    IF IsHex(n) THEN n[2] \in CommitsOf(objects)
    ELSE \/ n[2] \in DOMAIN refs_heads
         \/ n[2] \in DOMAIN refs_tags /\ NamedCommit(n) \in CommitsOf(objects)
         \/ n[2] = "HEAD" /\ get_head_commit(Repo) # None

\* C20: a checkout of a name that resolves to no commit fails and leaves HEAD, the
\* index, every ref and every working-tree file unchanged.
C20_CheckoutBadRevision ==
    [][(last'.cmd = "checkout" /\ ~Resolvable(last'.arg))
       => /\ last'.rc = "fail"
          /\ UNCHANGED <<HEAD, index, refs_heads, refs_tags, refs_stash, workdir, objects>>]_vars

\* A checkout has just failed in a repository with a commit, a staged path and a
\* file on disk.
C20_Witness ==
    /\ last.cmd = "checkout"
    /\ last.rc = "fail"
    /\ get_head_commit(Repo) # None
    /\ DOMAIN TreeOf(objects, get_head_commit(Repo)) # {}
    /\ DOMAIN index # {}
    /\ DOMAIN workdir # {}

\* ---------------------------------------------------------------- rebase from any HEAD
NextRebaseHead ==
    \/ \E f \in RefFiles : WriteFile(f[1], f[2])
    \/ \E f \in RefFiles : Add(FALSE, f[1])
    \/ \E m \in Messages : Commit(FALSE, m) /\ Within(MaxCommits)
    \/ \E b \in BranchNames : Branch(FALSE, b, None)
    \/ \E n \in CommitNames : Checkout(FALSE, n)
    \/ \E b \in BranchNames : Rebase(TRUE, b) /\ Within(MaxCommits + 1)

SpecRebaseHead == Init /\ [][NextRebaseHead]_vars

\* C21: a rebase run while HEAD is detached fails and changes no ref, not HEAD, not
\* the index, no object and no working-tree file.
C21_RebaseDetachedHead ==
    [][\A T \in BranchNames :
        (Ran("rebase", Name(T)) /\ HEAD[1] = "sha")
        => /\ last'.rc = "fail"
           /\ UNCHANGED <<HEAD, refs_heads, refs_tags, refs_stash, index, objects, workdir,
                          stray>>]_vars

\* A rebase has just failed on a detached HEAD whose commit has a commit of its own
\* that the target branch lacks, the target having one that HEAD lacks.
C21_Witness ==
    /\ last.cmd = "rebase"
    /\ last.rc = "fail"
    /\ HEAD[1] = "sha"
    /\ \E T \in DOMAIN refs_heads :
          /\ last.arg = Name(T)
          /\ HEAD[2] \notin ancestor_set(objects, refs_heads[T])
          /\ refs_heads[T] \notin ancestor_set(objects, HEAD[2])

\* ---------------------------------------------------------------- creating refs
NextRefs ==
    \/ \E f \in CoreFiles : WriteFile(f[1], f[2])
    \/ \E f \in CoreFiles : Add(FALSE, f[1])
    \/ \E m \in Messages : Commit(FALSE, m) /\ Within(MaxCommits)
    \/ \E b \in BranchNames, s \in StartPoints : Branch(TRUE, b, s)
    \/ \E t \in TagNames, s \in StartPoints, m \in TagMessages \cup {None} : Tag(TRUE, t, s, m)
    \/ ReInit(TRUE)

SpecRefs == Init /\ [][NextRefs]_vars

\* C23 as stated: branch and tag against a name that already exists, and init inside
\* an existing repository, each exit non-zero and leave the branch refs, the tag
\* refs, HEAD and the index unchanged.
C23_AlreadyExists ==
    [][(\/ \E b \in BranchNames : Ran("branch", Name(b)) /\ b \in DOMAIN refs_heads
        \/ \E t \in TagNames : Ran("tag", Name(t)) /\ t \in DOMAIN refs_tags
        \/ Ran("init", None))
       => /\ last'.rc = "fail"
          /\ UNCHANGED <<refs_heads, refs_tags, HEAD, index>>]_vars

\* ---------------------------------------------------------------- merges with deletions and conflicts
NextMergeRules ==
    \/ \E f \in FileInputs : WriteFile(f[1], f[2])
    \/ \E p \in Paths : Add(FALSE, p)
    \/ \E p \in Paths : Rm(FALSE, p)
    \/ \E m \in Messages : Commit(FALSE, m) /\ Within(MaxCommits)
    \/ \E b \in BranchNames : Checkout(FALSE, Name(b))
    \/ \E b \in BranchNames : Branch(FALSE, b, None)
    \/ \E b \in BranchNames : Merge(TRUE, b) /\ Within(MaxCommits + 1)

SpecMergeRules == Init /\ [][NextMergeRules]_vars

\* C25 as stated: in a three-way merge, with b, h, o the entries of path p in the
\* base, HEAD and other trees, the merged tree holds p -> o when (b = h or h = o) and
\* o is present, omits p when (b = h or h = o) and o is absent, holds p -> h when
\* b = o and h is present, and the merge conflicts exactly when some path has b, h, o
\* pairwise different. The merged tree is the new commit's tree.
C25_MergePathRule ==
    [][\A B \in BranchNames :
        (Ran("merge", Name(B)) /\ HEAD[1] = "ref" /\ ThreeWayMerge(B))
        => LET H == get_head_commit(Repo)
               O == refs_heads[B]
               base == TreeOf(objects, find_common_ancestor(objects, H, O))
               head == TreeOf(objects, H)
               other == TreeOf(objects, O)
               conflicted == ConflictedPaths(objects, find_common_ancestor(objects, H, O), H, O)
               T == TreeOf(objects', refs_heads'[HEAD[2]])
           IN  /\ (last'.note = "merged") <=> (conflicted = {})
               /\ (conflicted = {})
                  => \A p \in (DOMAIN base) \cup (DOMAIN head) \cup (DOMAIN other) :
                        LET b == Get(base, p)
                            h == Get(head, p)
                            o == Get(other, p)
                        IN  /\ ((b = h \/ h = o) /\ o # None) => Get(T, p) = o
                            /\ ((b = h \/ h = o) /\ o = None) => p \notin DOMAIN T
                            /\ (b = o /\ h # None) => Get(T, p) = h]_vars

\* C26 as stated: when a three-way merge has conflicts, every conflicted path, a path
\* deleted on one side and modified on the other included, gets a marker file in the
\* working tree (HEAD's content between the markers where HEAD has the path, the
\* other content where the other side has it), the file's blob is stored, and the
\* index maps each conflicted path to its marker blob and every other path to its
\* merged blob.
C26_ConflictMarkers ==
    [][\A B \in BranchNames :
        (Ran("merge", Name(B)) /\ HEAD[1] = "ref" /\ ConflictingMerge(B))
        => LET H == get_head_commit(Repo)
               O == refs_heads[B]
               base == TreeOf(objects, find_common_ancestor(objects, H, O))
               head == TreeOf(objects, H)
               other == TreeOf(objects, O)
               conflicted == ConflictedPaths(objects, find_common_ancestor(objects, H, O), H, O)
           IN  /\ \A p \in conflicted :
                     /\ p \in DOMAIN workdir'
                     /\ workdir'[p][1] = 60
                     /\ (p \in DOMAIN head /\ p \in DOMAIN other)
                        => workdir'[p] = <<60>> \o read_object(objects, head[p]).content \o <<61>>
                                         \o read_object(objects, other[p]).content
                                         \o <<62, BranchToken(B)>>
                     /\ sha1(workdir'[p], "blob") \in objects'
                     /\ Get(index', p) = sha1(workdir'[p], "blob")
               /\ \A p \in ((DOMAIN base) \cup (DOMAIN head) \cup (DOMAIN other)) \ conflicted :
                     /\ (Get(base, p) = Get(head, p) /\ p \in DOMAIN other)
                        => Get(index', p) = other[p]
                     /\ (Get(base, p) = Get(other, p) \/ Get(head, p) = Get(other, p))
                        => Get(index', p) = Get(head, p)]_vars

\* ---------------------------------------------------------------- clean merges
\* Three paths, so that one merge can meet a file added on each side only.
MergeInputs == {<<"a.txt", <<1>>>>, <<"a.txt", <<2>>>>, <<"b.txt", <<1>>>>, <<"c.txt", <<1>>>>}

NextCleanMerge ==
    \/ \E f \in MergeInputs : WriteFile(f[1], f[2])
    \/ \E f \in MergeInputs : Add(FALSE, f[1])
    \/ \E m \in Messages : Commit(FALSE, m) /\ Within(MaxCommits)
    \/ \E b \in BranchNames : Checkout(FALSE, Name(b))
    \/ \E b \in BranchNames : Branch(FALSE, b, None)
    \/ \E b \in BranchNames : Merge(TRUE, b) /\ Within(MaxCommits + 1)

SpecCleanMerge == Init /\ [][NextCleanMerge]_vars

\* C11: with HEAD attached to X at H, branch B at O, neither an ancestor of the
\* other and no path conflicted, `merge B` creates exactly one commit, with parents
\* <<H, O>>; refs/heads/X is that commit, HEAD stays attached to X and no other
\* branch moves; the commit's tree is stored, takes HEAD's entry where the other side
\* agrees with the base or with HEAD's, takes the other side's entry where HEAD agrees
\* with the base, so holds every file added on one side only; the index is that tree
\* and every path of it is on disk with its blob's content.
C11_CleanThreeWayMerge ==
    [][\A B \in BranchNames :
        (/\ Ran("merge", Name(B))
         /\ HEAD[1] = "ref"
         /\ HEAD[2] \in DOMAIN refs_heads
         /\ ThreeWayMerge(B)
         /\ ConflictedPaths(objects, find_common_ancestor(objects, get_head_commit(Repo),
                                                          refs_heads[B]),
                            get_head_commit(Repo), refs_heads[B]) = {})
        => LET X == HEAD[2]
               H == refs_heads[X]
               O == refs_heads[B]
               M == refs_heads'[X]
               b == TreeOf(objects, find_common_ancestor(objects, H, O))
               h == TreeOf(objects, H)
               o == TreeOf(objects, O)
               T == TreeOf(objects', M)
           IN  /\ last'.rc = "ok"
               /\ CommitsOf(objects') \ CommitsOf(objects) = {M}
               /\ M[2].parents = <<H, O>>
               /\ M[2].tree \in objects'
               /\ HEAD' = HEAD
               /\ \A n \in (DOMAIN refs_heads) \ {X} :
                     n \in DOMAIN refs_heads' /\ refs_heads'[n] = refs_heads[n]
               /\ DOMAIN refs_heads' = DOMAIN refs_heads
               /\ \A p \in (DOMAIN h) \ ((DOMAIN b) \cup (DOMAIN o)) : Get(T, p) = h[p]
               /\ \A p \in (DOMAIN o) \ ((DOMAIN b) \cup (DOMAIN h)) : Get(T, p) = o[p]
               /\ \A p \in (DOMAIN b) \cup (DOMAIN h) \cup (DOMAIN o) :
                     /\ Get(h, p) = Get(o, p) => Get(T, p) = Get(h, p)
                     /\ Get(b, p) = Get(o, p) => Get(T, p) = Get(h, p)
                     /\ (Get(b, p) = Get(h, p) /\ p \in DOMAIN o) => Get(T, p) = o[p]
               /\ index' = T
               /\ \A p \in DOMAIN T :
                     p \in DOMAIN workdir' /\ sha1(workdir'[p], "blob") = T[p]]_vars

\* A merge has just made a commit on the attached branch whose first parent added
\* one file and whose second parent added another, both of them now on disk.
C11_Witness ==
    /\ last.cmd = "merge"
    /\ last.note = "merged"
    /\ HEAD[1] = "ref"
    /\ LET M == get_head_commit(Repo)
           h == TreeOf(objects, M[2].parents[1])
           o == TreeOf(objects, M[2].parents[2])
           b == TreeOf(objects, find_common_ancestor(objects, M[2].parents[1], M[2].parents[2]))
       IN  /\ \E p \in (DOMAIN h) \ ((DOMAIN b) \cup (DOMAIN o)) : p \in DOMAIN workdir
           /\ \E p \in (DOMAIN o) \ ((DOMAIN b) \cup (DOMAIN h)) : p \in DOMAIN workdir

\* ---------------------------------------------------------------- name resolution, character by character
\* Names and object ids are sequences of characters here, so that a name can be a
\* branch, a tag and the beginning of an id at once. An id has five characters.
HexDigits == {"a", "b", "1"}

lower_char(c) ==
    CASE c = "A" -> "a" [] c = "B" -> "b" [] c = "H" -> "h" [] c = "E" -> "e"
      [] c = "D" -> "d" [] OTHER -> c

upper_char(c) ==
    CASE c = "a" -> "A" [] c = "b" -> "B" [] c = "h" -> "H" [] c = "e" -> "E"
      [] c = "d" -> "D" [] c = "m" -> "M" [] c = "i" -> "I" [] c = "n" -> "N" [] OTHER -> c

lower(name) == [i \in 1..Len(name) |-> lower_char(name[i])]
upper(name) == [i \in 1..Len(name) |-> upper_char(name[i])]
startswith(obj, prefix) == Len(prefix) <= Len(obj) /\ SubSeq(obj, 1, Len(prefix)) = prefix

\* resolver.py line 37: the shortest name taken as the beginning of an id.
MinPrefixLen == 4

\* The objects of the store: three commits, two of them alike in their first four
\* characters, an annotated tag of the third, and a blob.
id_c1 == <<"a", "b", "1", "a", "1">>
id_c2 == <<"a", "b", "1", "a", "b">>
id_c3 == <<"b", "1", "1", "1", "1">>
id_t1 == <<"1", "1", "1", "1", "a">>
id_bl == <<"1", "b", "b", "b", "b">>

StoredObjects ==
    (id_c1 :> [type |-> "commit", object |-> None]) @@
    (id_c2 :> [type |-> "commit", object |-> None]) @@
    (id_c3 :> [type |-> "commit", object |-> None]) @@
    (id_t1 :> [type |-> "tag", object |-> id_c3]) @@
    (id_bl :> [type |-> "blob", object |-> None])

BranchTexts == {<<"m", "a", "i", "n">>, <<"b", "1", "1", "1">>, <<"h", "e", "a", "d">>,
                <<"a", "b", "1", "a", "b">>}
TagTexts == {<<"m", "a", "i", "n">>, <<"b", "1", "1", "1">>}
NameTexts ==
    BranchTexts \cup
    {<<"H", "E", "A", "D">>, <<"H", "e", "a", "d">>, <<"a", "b", "1", "a">>,
     <<"A", "B", "1", "A", "B">>, <<"a", "b", "1">>, <<"1", "1", "1", "1">>,
     <<"1", "b", "b", "b">>, <<"b", "1", "1", "1", "1">>, <<"b", "b", "b", "b">>}

\* refs.py 17-29 on the HEAD of this section.
get_head_commit_text(head, heads) ==
    IF head[1] = "sha" THEN head[2]
    ELSE IF head[2] \in DOMAIN heads THEN heads[head[2]] ELSE None

\* resolve_ref asking for the tag before the branch.
resolve_ref_text_tag_first(heads, tags, dir, name) ==
    IF name \in DOMAIN tags THEN tags[name]
    ELSE IF name \in DOMAIN heads THEN heads[name]
    ELSE IF Len(name) >= MinPrefixLen /\ \A i \in 1..Len(name) : lower(name)[i] \in HexDigits
    THEN LET matches == {obj \in DOMAIN dir : startswith(obj, lower(name))} IN
         IF Cardinality(matches) = 1 THEN CHOOSE obj \in matches : TRUE ELSE None
    ELSE None

\* resolver.py 24-48.
resolve_ref_text(heads, tags, dir, name) ==
    IF name \in DOMAIN heads THEN heads[name]
    ELSE IF name \in DOMAIN tags THEN tags[name]
    ELSE IF Len(name) >= MinPrefixLen /\ \A i \in 1..Len(name) : lower(name)[i] \in HexDigits
    THEN LET matches == {obj \in DOMAIN dir : startswith(obj, lower(name))} IN
         IF Cardinality(matches) = 1 THEN CHOOSE obj \in matches : TRUE ELSE None
    ELSE None

\* The loop of lines 14-21 following one tag only.
peel_text_once(dir, sha) ==
    IF sha \notin DOMAIN dir THEN None
    ELSE IF dir[sha].type = "commit" THEN sha
    ELSE IF dir[sha].type = "tag"
    THEN IF dir[sha].object \in DOMAIN dir /\ dir[dir[sha].object].type = "commit"
         THEN dir[sha].object ELSE None
    ELSE None

\* resolver.py 13-20.
RECURSIVE peel_text(_, _)
peel_text(dir, sha) ==
    IF sha \notin DOMAIN dir THEN None
    ELSE IF dir[sha].type = "commit" THEN sha
    ELSE IF dir[sha].type = "tag" THEN peel_text(dir, dir[sha].object)
    ELSE None

\* resolver.py 7-21.
resolve_ref_to_commit_text(heads, tags, dir, ref_name) ==
    IF ref_name = <<>> THEN None
    ELSE LET sha == resolve_ref_text(heads, tags, dir, ref_name) IN
         IF sha = None THEN None ELSE peel_text(dir, sha)

\* commands.py 62-69, to_commit=True.
resolve_ref_or_head_text(head, heads, tags, dir, ref_name) ==
    IF upper(ref_name) = <<"H", "E", "A", "D">> THEN get_head_commit_text(head, heads)
    ELSE resolve_ref_to_commit_text(heads, tags, dir, ref_name)

\* A repository with some of the branches and tags, and with or without the
\* second of the two commits that begin alike.
InitResolve ==
    /\ \E B \in SUBSET BranchTexts : refs_heads \in [B -> {id_c1, id_c3}]
    /\ \E T \in SUBSET TagTexts : refs_tags \in [T -> {id_c1, id_t1, id_bl}]
    /\ HEAD \in {<<"ref", <<"m", "a", "i", "n">>>>, <<"sha", id_c1>>}
    /\ objects_dir \in {StoredObjects, [o \in (DOMAIN StoredObjects) \ {id_c2} |-> StoredObjects[o]]}
    /\ pending = <<>>
    /\ writers = <<>>
    /\ objects = {}
    /\ refs_stash = <<>>
    /\ index = EmptyDict
    /\ workdir = EmptyDict
    /\ stray = EmptyDict
    /\ clock = 0
    /\ last = Idle

\* Resolution reads the repository and writes nothing.
ResolveRefOrHead(name) ==
    /\ last' = [cmd |-> "resolve", arg |-> name, rc |-> "ok",
                note |-> resolve_ref_or_head_text(HEAD, refs_heads, refs_tags, objects_dir, name)]
    /\ UNCHANGED <<objects, HEAD, refs_heads, refs_tags, refs_stash, index, workdir, stray,
                   clock, objects_dir, pending, writers>>

NextResolve == \E name \in NameTexts : ResolveRefOrHead(name)

SpecResolve == InitResolve /\ [][NextResolve]_vars

\* The ids of the store that begin with the name in lower case.
Beginning(name) == {obj \in DOMAIN objects_dir : startswith(obj, lower(name))}

\* The commit an id leads to: itself, or the commit its tag object names.
CommitBehind(sha) ==
    IF sha \notin DOMAIN objects_dir THEN None
    ELSE IF objects_dir[sha].type = "commit" THEN sha
    ELSE IF objects_dir[sha].type = "tag" /\ objects_dir[sha].object \in DOMAIN objects_dir
            /\ objects_dir[objects_dir[sha].object].type = "commit"
    THEN objects_dir[sha].object
    ELSE None

\* C22: resolution takes the first of: the literal HEAD in any case (HEAD's commit),
\* a branch of the name (its commit id), a tag of the name (the commit behind the
\* tag file's id), a name of four or more hex characters that begins exactly one
\* stored id (that id, when a commit); so a branch that shares its name with a tag,
\* or whose name begins a stored id, gives the branch's commit id.
C22_ResolverPrecedence ==
    (last.cmd = "resolve")
    => LET name == last.arg
           result == last.note
       IN  IF upper(name) = <<"H", "E", "A", "D">>
           THEN result = get_head_commit_text(HEAD, refs_heads)
           ELSE IF name \in DOMAIN refs_heads
           THEN result = refs_heads[name]
           ELSE IF name \in DOMAIN refs_tags
           THEN result = CommitBehind(refs_tags[name])
           ELSE IF Len(name) >= 4 /\ (\A i \in 1..Len(name) : lower(name)[i] \in HexDigits)
                   /\ Cardinality(Beginning(name)) = 1
           THEN \E obj \in Beginning(name) : result = CommitBehind(obj)
           ELSE result = None

\* A name that is a branch, a tag of another commit and the beginning of a third
\* stored id has just been resolved to the branch's commit.
C22_Witness ==
    /\ last.cmd = "resolve"
    /\ last.arg = <<"b", "1", "1", "1">>
    /\ last.arg \in DOMAIN refs_heads
    /\ last.arg \in DOMAIN refs_tags
    /\ refs_heads[last.arg] = id_c1
    /\ refs_tags[last.arg] = id_t1
    /\ Beginning(last.arg) = {id_c3}
    /\ last.note = id_c1

\* ---------------------------------------------------------------- clean, over a working tree with directories
\* Paths are sequences of characters and the working tree maps each path on disk to
\* <<"file", content>> or to <<"dir">>; the index maps tracked paths to blob ids.
path_a_t == <<"a", ".", "t">>
path_a_x == <<"a", "/", "x">>
path_b_y == <<"b", "/", "y">>
path_c == <<"c">>
CleanFiles == {path_a_t, path_a_x, path_b_y, path_c}

\* os.path.dirname for the paths of this section: "" for a path with no "/".
dirname(p) == IF Len(p) = 3 /\ p[2] = "/" THEN <<p[1]>> ELSE <<>>

\* The directories of the repository root that hold the files F.
DirsOf(F) == {dirname(p) : p \in F} \ {<<>>}

files_on_disk(wd) == {p \in DOMAIN wd : wd[p][1] = "file"}
dirs_on_disk(wd) == {p \in DOMAIN wd : wd[p][1] = "dir"}

\* shutil.rmtree(d): d and everything below it.
rmtree(wd, d) ==
    [p \in {q \in DOMAIN wd : q # d /\ ~startswith(q, d \o <<"/">>)} |-> wd[p]]

RECURSIVE rmtrees(_, _)
rmtrees(wd, D) ==
    IF D = {} THEN wd
    ELSE LET d == CHOOSE x \in D : TRUE IN rmtrees(rmtree(wd, d), D \ {d})

\* Lines 518-531: what clean collects, with no .gitignore in the repository.
untracked_files(R) == {p \in files_on_disk(R.workdir) : p \notin DOMAIN R.index}

untracked_dirs(R, clean_dirs) ==
    IF clean_dirs
    THEN {d \in dirs_on_disk(R.workdir) : ~\E f \in DOMAIN R.index : startswith(f, d)}
    ELSE {}

\* Lines 501-547. The note is what the command lists as removed or to be removed.
clean(R, dry_run, force, clean_dirs) ==
    IF ~force /\ ~dry_run THEN Fail(R, <<{}, {}>>)
    ELSE IF dry_run THEN Ok(R, <<untracked_files(R), untracked_dirs(R, clean_dirs)>>)
    ELSE Ok([R EXCEPT !.workdir =
                rmtrees([p \in (DOMAIN R.workdir) \ untracked_files(R) |-> R.workdir[p]],
                        untracked_dirs(R, clean_dirs))],
            <<untracked_files(R), untracked_dirs(R, clean_dirs)>>)

Clean(dry_run, force, clean_dirs) ==
    Run(TRUE, "clean", <<dry_run, force, clean_dirs>>, clean(Repo, dry_run, force, clean_dirs))

\* A working tree with some of the files, their directories and perhaps an empty
\* directory b, and an index of some of the paths.
InitClean ==
    /\ \E F \in SUBSET CleanFiles, E \in SUBSET {<<"b">>} :
          workdir = [p \in F \cup DirsOf(F) \cup E |->
                        IF p \in F THEN <<"file", <<1>>>> ELSE <<"dir">>]
    /\ \E I \in SUBSET CleanFiles : index = [p \in I |-> sha1(<<1>>, "blob")]
    /\ objects = {sha1(<<1>>, "blob")}
    /\ HEAD = <<"ref", "main">>
    /\ refs_heads = EmptyDict
    /\ refs_tags = EmptyDict
    /\ refs_stash = <<>>
    /\ stray = EmptyDict
    /\ clock = 0
    /\ objects_dir = EmptyDict
    /\ pending = <<>>
    /\ writers = <<>>
    /\ last = Idle

NextClean == \E dry_run, force, clean_dirs \in BOOLEAN : Clean(dry_run, force, clean_dirs)

SpecClean == InitClean /\ [][NextClean]_vars

\* The directory holds a tracked file.
HoldsTracked(d) == \E f \in DOMAIN index : startswith(f, d \o <<"/">>)

\* C24 as stated: clean without -f and -n fails and removes nothing; clean -n removes
\* nothing and lists the files clean -f would remove; clean -f removes every file
\* on disk that is not in the index; with -d it also removes every directory that
\* holds no tracked file; clean never deletes a file whose path is in the index and
\* changes no ref, HEAD, index or object.
C24_Clean ==
    [][(last'.cmd = "clean")
       => LET dry_run == last'.arg[1]
              force == last'.arg[2]
              clean_dirs == last'.arg[3]
          IN  /\ (~force /\ ~dry_run) => (last'.rc = "fail" /\ workdir' = workdir)
              /\ dry_run
                 => /\ workdir' = workdir
                    /\ last'.note[1] = {p \in files_on_disk(workdir) : p \notin DOMAIN index}
              /\ (force /\ ~dry_run)
                 => /\ \A p \in files_on_disk(workdir) :
                          p \notin DOMAIN index => p \notin DOMAIN workdir'
                    /\ clean_dirs
                       => \A d \in dirs_on_disk(workdir) :
                             ~HoldsTracked(d) => d \notin DOMAIN workdir'
              /\ \A p \in (DOMAIN index) \cap DOMAIN workdir :
                    p \in DOMAIN workdir' /\ workdir'[p] = workdir[p]
              /\ UNCHANGED <<HEAD, refs_heads, refs_tags, refs_stash, index, objects>>]_vars

\* ---------------------------------------------------------------- the commands, write by write
\* A command as the sequence of its writes to the file system, in the order of its
\* code. A write is one of
\*   <<"object", id>>          hash_object: a file under .pygit/objects
\*   <<"branch", name, id>>    a file under .pygit/refs/heads
\*   <<"stray", name, id>>     a file .pygit/<name> written through a detached HEAD
\*   <<"tag", name, id>>       a file under .pygit/refs/tags
\*   <<"stash", ids>>          .pygit/refs/stash
\*   <<"HEAD", value>>         .pygit/HEAD
\*   <<"index", tree>>         .pygit/index
\*   <<"file", path, content>> and <<"remove", path>>   a file of the working tree
apply_write(R, w) ==
    CASE w[1] = "object" ->
            [R EXCEPT !.objects = @ \cup {w[2]},
                      !.clock = IF w[2][1] = "commit" THEN w[2][2].time + 1 ELSE @]
      [] w[1] = "branch" -> [R EXCEPT !.heads = Put(@, w[2], w[3])]
      [] w[1] = "stray" -> [R EXCEPT !.stray = Put(@, w[2], w[3])]
      [] w[1] = "tag" -> [R EXCEPT !.tags = Put(@, w[2], w[3])]
      [] w[1] = "stash" -> [R EXCEPT !.stash = w[2]]
      [] w[1] = "HEAD" -> [R EXCEPT !.HEAD = w[2]]
      [] w[1] = "index" -> [R EXCEPT !.index = w[2]]
      [] w[1] = "file" -> [R EXCEPT !.workdir = Put(@, w[2], w[3])]
      [] w[1] = "remove" -> [R EXCEPT !.workdir = Del(@, w[2])]

RECURSIVE apply_writes(_, _)
apply_writes(R, ws) ==
    IF ws = <<>> THEN R ELSE apply_writes(apply_write(R, Head(ws)), Tail(ws))

\* commands.py 255-299.
checkout_writes(R, name) ==
    LET old_head_commit == get_head_commit(R)
        old_tree == IF old_head_commit # None
                    THEN get_tree_contents(R.objects, get_commit_tree(R.objects, old_head_commit))
                    ELSE EmptyDict
        commit_sha1 == resolve_ref_or_head(R, name)
        new_tree == get_tree_contents(R.objects, get_commit_tree(R.objects, commit_sha1))
        deleted == SortedPaths(((DOMAIN old_tree) \ (DOMAIN new_tree)) \cap DOMAIN R.workdir)
        written == SortedPaths(DOMAIN new_tree)
    IN  IF commit_sha1 = None THEN <<>>
        ELSE [i \in 1..Len(deleted) |-> <<"remove", deleted[i]>>]
             \o [i \in 1..Len(written) |->
                    <<"file", written[i], read_object(R.objects, new_tree[written[i]]).content>>]
             \o << <<"index", new_tree>>,
                   <<"HEAD", IF get_branch_commit(R, name) # None THEN <<"ref", name[2]>>
                             ELSE <<"sha", commit_sha1>>>> >>

\* commit with the ref written before the tree and the commit object.
commit_writes_ref_first(R, message) ==
    LET tree_sha1 == sha1(read_index(R), "tree")
        parent_sha1 == get_head_commit(R)
        parents == IF parent_sha1 # None THEN <<parent_sha1>> ELSE <<>>
        commit_sha1 == create_commit_sha(R, message, tree_sha1, parents)
    IN  IF DOMAIN read_index(R) = {} THEN <<>>
        ELSE << IF get_head_ref(R)[1] = "ref" THEN <<"branch", get_head_ref(R)[2], commit_sha1>>
                ELSE <<"HEAD", <<"sha", commit_sha1>>>>,
                <<"object", tree_sha1>>, <<"object", commit_sha1>> >>

\* commands.py 118-144.
commit_writes(R, message) ==
    LET tree_sha1 == sha1(read_index(R), "tree")
        parent_sha1 == get_head_commit(R)
        parents == IF parent_sha1 # None THEN <<parent_sha1>> ELSE <<>>
        commit_sha1 == create_commit_sha(R, message, tree_sha1, parents)
    IN  IF DOMAIN read_index(R) = {} THEN <<>>
        ELSE << <<"object", tree_sha1>>, <<"object", commit_sha1>>,
                IF get_head_ref(R)[1] = "ref" THEN <<"branch", get_head_ref(R)[2], commit_sha1>>
                ELSE <<"HEAD", <<"sha", commit_sha1>>>> >>

\* commands.py 224-252.
branch_writes(R, branch_name, start_point) ==
    LET start_point_ref == IF start_point # None THEN start_point ELSE Name("HEAD")
        commit_hash == resolve_ref_or_head(R, start_point_ref)
    IN  IF branch_name \in DOMAIN R.heads \/ commit_hash = None THEN <<>>
        ELSE << <<"branch", branch_name, commit_hash>> >>

\* commands.py 397-422 and refs.py 51-77.
tag_writes(R, tag_name, commit_ref, message) ==
    LET sha == resolve_ref_or_head(R, IF commit_ref # None THEN commit_ref ELSE Name("HEAD"))
        tag_content == [object |-> sha, type |-> read_object(R.objects, sha).type,
                        tag |-> tag_name, message |-> message]
    IN  IF sha = None \/ tag_name \in DOMAIN R.tags THEN <<>>
        ELSE IF message # None
        THEN << <<"object", sha1(tag_content, "tag")>>, <<"tag", tag_name, sha1(tag_content, "tag")>> >>
        ELSE << <<"tag", tag_name, sha>> >>

\* commands.py 371-377: for each conflicted path the marker file, then its blob;
\* the loop ends at the first path one side does not hold.
RECURSIVE conflict_writes(_, _, _, _, _, _)
conflict_writes(R, merged_tree, conflicts, head_tree, other_tree, branch_name) ==
    IF conflicts = <<>> THEN << <<"index", merged_tree>> >>
    ELSE LET path == Head(conflicts) IN
         IF path \notin DOMAIN head_tree \/ path \notin DOMAIN other_tree THEN <<>>
         ELSE LET c == conflict_content(read_object(R.objects, head_tree[path]).content,
                                        read_object(R.objects, other_tree[path]).content,
                                        branch_name)
              IN  << <<"file", path, c>>, <<"object", sha1(c, "blob")>> >>
                  \o conflict_writes(R, Put(merged_tree, path, sha1(c, "blob")), Tail(conflicts),
                                     head_tree, other_tree, branch_name)

\* commands.py 326-394.
merge_writes(R, branch_name) ==
    LET head_commit == get_head_commit(R)
        other_commit == get_branch_commit(R, branch_name)
        base_commit == find_common_ancestor(R.objects, head_commit, other_commit)
        base_tree == get_tree_contents(R.objects, get_commit_tree(R.objects, base_commit))
        head_tree == get_tree_contents(R.objects, get_commit_tree(R.objects, head_commit))
        other_tree == get_tree_contents(R.objects, get_commit_tree(R.objects, other_commit))
        merged_tree == merge_tree(base_tree, head_tree, other_tree)
        conflicts == merge_conflicts(base_tree, head_tree, other_tree)
        message == <<"Merge branch", branch_name[2]>>
        R1 == [R EXCEPT !.objects = hash_object(@, merged_tree, "tree")]
        merge_commit_sha == create_commit_sha(R1, message, sha1(merged_tree, "tree"),
                                              <<head_commit, other_commit>>)
        head_ref == get_head_ref(R)
        first == << <<"object", sha1(merged_tree, "tree")>>, <<"object", merge_commit_sha>>,
                    IF head_ref[1] = "ref" THEN <<"branch", head_ref[2], merge_commit_sha>>
                    ELSE <<"stray", head_ref[2], merge_commit_sha>> >>
    IN  IF other_commit = None \/ head_commit = other_commit THEN <<>>
        ELSE IF other_commit \in get_full_history_set(R.objects, head_commit) THEN <<>>
        ELSE IF head_commit \in get_full_history_set(R.objects, other_commit)
        THEN checkout_writes(R, branch_name)
        ELSE IF base_commit = None THEN <<>>
        ELSE IF conflicts # <<>>
        THEN conflict_writes(R, merged_tree, conflicts, head_tree, other_tree, branch_name[2])
        ELSE first \o checkout_writes(apply_writes(R, first),
                                      IF head_ref[1] = "ref" THEN Name(head_ref[2])
                                      ELSE Hex(head_ref[2]))

\* commands.py 626-644.
RECURSIVE replay_writes(_, _, _, _)
replay_writes(R, todo, new_base, target_tree) ==
    IF todo = <<>> THEN <<>>
    ELSE LET commit_sha == Head(todo)
             message == read_object(R.objects, commit_sha).content.message
             original_tree == get_tree_contents(R.objects, get_commit_tree(R.objects, commit_sha))
             combined_tree == Update(target_tree, original_tree)
             R1 == [R EXCEPT !.objects = hash_object(@, combined_tree, "tree")]
             new_commit == create_commit_sha(R1, message, sha1(combined_tree, "tree"), <<new_base>>)
             R2 == create_commit(R1, message, sha1(combined_tree, "tree"), <<new_base>>)
         IN  << <<"object", sha1(combined_tree, "tree")>>, <<"object", new_commit>> >>
             \o replay_writes(R2, Tail(todo), new_commit, combined_tree)

\* commands.py 573-654.
rebase_writes(R, target_branch) ==
    LET current_ref == get_head_ref(R)
        current_commit == get_head_commit(R)
        target_commit == get_branch_commit(R, target_branch)
        base_commit == find_common_ancestor(R.objects, current_commit, target_commit)
        todo == commits_to_replay(R.objects, current_commit, target_commit, base_commit)
        target_tree == get_tree_contents(R.objects, get_commit_tree(R.objects, target_commit))
        written == SortedPaths(DOMAIN target_tree)
        first == << <<"HEAD", <<"sha", target_commit>>>> >>
                 \o [i \in 1..Len(written) |->
                        <<"file", written[i],
                          read_object(R.objects, target_tree[written[i]]).content>>]
        R2 == apply_writes(R, first)
        replayed == replay_writes(R2, todo, target_commit, target_tree)
        new_base == replay(R2, todo, target_commit, target_tree).new_base
        second == first \o replayed \o << <<"branch", current_ref[2], new_base>> >>
    IN  IF current_ref[1] # "ref" \/ target_commit = None \/ current_commit = target_commit
           \/ base_commit = None \/ todo = <<>>
        THEN <<>>
        ELSE second \o checkout_writes(apply_writes(R, second), Name(current_ref[2]))

\* commands.py 441-472.
stash_push_writes(R) ==
    LET head_commit == get_head_commit(R)
        index_tree == read_index(R)
        workdir_tree == stash_workdir_tree(R)
        hashed == SortedPaths(DOMAIN workdir_tree)
        index_tree_sha == sha1(index_tree, "tree")
        workdir_tree_sha == sha1(workdir_tree, "tree")
        first == [i \in 1..Len(hashed) |-> <<"object", workdir_tree[hashed[i]]>>]
                 \o << <<"object", index_tree_sha>>, <<"object", workdir_tree_sha>> >>
        R1 == apply_writes(R, first)
        stash_hash == create_commit_sha(R1, <<"Stash on", get_head_ref(R1)>>, index_tree_sha,
                                        <<head_commit, workdir_tree_sha>>)
        second == first \o << <<"object", stash_hash>>,
                              <<"stash", <<stash_hash>> \o read_stash(R1)>> >>
        R3 == apply_writes(R, second)
    IN  IF head_commit = None THEN first
        ELSE IF index_tree_sha = get_commit_tree(R1.objects, head_commit)
                /\ workdir_tree = index_tree
        THEN first
        ELSE second \o checkout_writes(R3, Hex(head_commit))
             \o << <<"index", get_tree_contents(R3.objects,
                                                get_commit_tree(R3.objects, head_commit))>> >>

\* A command starts: its writes are all still to be made.
Begin(cmd, arg, ws) ==
    /\ pending = <<>>
    /\ pending' = ws
    /\ last' = [cmd |-> cmd, arg |-> arg, rc |-> "ok", note |-> "writing"]
    /\ UNCHANGED <<objects, HEAD, refs_heads, refs_tags, refs_stash, index, workdir, stray,
                   clock, objects_dir, writers>>

\* The command in progress makes its next write.
Step ==
    /\ pending # <<>>
    /\ \E r \in {apply_write(Repo, Head(pending))} :
        /\ objects' = r.objects
        /\ HEAD' = r.HEAD
        /\ refs_heads' = r.heads
        /\ refs_tags' = r.tags
        /\ refs_stash' = r.stash
        /\ index' = r.index
        /\ workdir' = r.workdir
        /\ stray' = r.stray
        /\ clock' = r.clock
    /\ pending' = Tail(pending)
    /\ UNCHANGED <<objects_dir, writers, last>>

\* The commit objects among the writes to be made stay within the bound.
WritesWithin(ws, max) ==
    Cardinality(Commits \cup {ws[i][2] : i \in {j \in 1..Len(ws) : ws[j][1] = "object"
                                                                     /\ ws[j][2][1] = "commit"}})
        <= max

CommitBegin(m) == Begin("commit", None, commit_writes(Repo, <<"msg", m>>))
BranchBegin(b, s) == Begin("branch", Name(b), branch_writes(Repo, b, s))
TagBegin(t, s, m) == Begin("tag", Name(t), tag_writes(Repo, t, s, m))
MergeBegin(b) == Begin("merge", Name(b), merge_writes(Repo, Name(b)))
RebaseBegin(b) == Begin("rebase", Name(b), rebase_writes(Repo, Name(b)))
StashPushBegin == Begin("stash push", None, stash_push_writes(Repo))
CheckoutBegin(n) == Begin("checkout", n, checkout_writes(Repo, n))

\* The commands that write refs, one file write at a time; the user edits and
\* stages files between commands.
NextWrites ==
    \/ \E f \in RefFiles : pending = <<>> /\ WriteFile(f[1], f[2])
    \/ \E f \in RefFiles : pending = <<>> /\ Add(FALSE, f[1])
    \/ \E m \in Messages : CommitBegin(m) /\ WritesWithin(pending', MaxCommits)
    \/ \E b \in BranchNames : BranchBegin(b, None)
    \/ \E t \in TagNames, m \in TagMessages \cup {None} : TagBegin(t, None, m)
    \/ \E b \in BranchNames : MergeBegin(b) /\ WritesWithin(pending', MaxCommits + 1)
    \/ \E b \in BranchNames : RebaseBegin(b) /\ WritesWithin(pending', MaxCommits + 1)
    \/ StashPushBegin /\ WritesWithin(pending', MaxCommits) /\ Len(refs_stash) < MaxStash
    \/ \E n \in {Name(b) : b \in BranchNames} : CheckoutBegin(n)
    \/ Step

SpecWrites == Init /\ [][NextWrites]_vars

\* C27: with each file write of commit, tag, branch, merge, rebase and stash push
\* taken as one step, in every state between the steps every id held by a branch
\* ref, a tag ref, the stash list or a detached HEAD is the id of an object
\* present in the object store.
C27_NoDanglingRef ==
    /\ \A b \in DOMAIN refs_heads : refs_heads[b] \in objects
    /\ \A t \in DOMAIN refs_tags : refs_tags[t] \in objects
    /\ \A i \in 1..Len(refs_stash) : refs_stash[i] \in objects
    /\ HEAD[1] = "sha" => HEAD[2] \in objects

\* rebase is between two writes: the replayed commits are stored, HEAD is detached
\* at the target, and the branch ref that will take the last replayed commit is
\* the next file to be written.
C27_Witness ==
    /\ last.cmd = "rebase"
    /\ pending # <<>>
    /\ Head(pending)[1] = "branch"
    /\ Head(pending)[3] \in objects
    /\ Head(pending)[3] \notin {refs_heads[b] : b \in DOMAIN refs_heads}
    /\ HEAD[1] = "sha"

\* The j-th of the writes ws, made from a store holding objs, creates an object file.
IsObjectWrite(ws, j, objs) ==
    /\ ws[j][1] = "object"
    /\ ws[j][2] \notin objs
    /\ \A k \in 1..(j - 1) : ws[k] # ws[j]

IsRefWrite(w) == w[1] \in {"branch", "HEAD"}

IsFileWrite(w) == w[1] = "file"

\* C28: within one merge or rebase, every object write of the command happens before
\* its ref write (branch ref or HEAD), and every ref write happens before the first
\* write to a working-tree file: of the writes still to be made, none that creates
\* an object follows a ref write and no ref write follows a working-tree file write.
C28_WriteOrder ==
    last.cmd \in {"merge", "rebase"}
    => \A i, j \in 1..Len(pending) :
          i < j => /\ ~(IsRefWrite(pending[i]) /\ IsObjectWrite(pending, j, objects))
                   /\ ~(IsFileWrite(pending[i]) /\ IsRefWrite(pending[j]))

\* The entry that a stash push made of index I, tracked working files W and HEAD
\* commit h: a stored commit with tree I and parents h and the tree of W.
StashEntryOf(entry, objs, I, W, h) ==
    /\ entry \in objs
    /\ entry[1] = "commit"
    /\ entry[2].tree = sha1(I, "tree")
    /\ entry[2].parents = <<h, sha1(W, "tree")>>

\* C29: after a successful stash push the index equals the HEAD commit's tree, the
\* working tree holds exactly the HEAD content at every path tracked before the
\* push (nothing where HEAD has no such path), and the new first stash entry is a
\* commit whose tree is the index before the push and whose parents are the HEAD
\* commit and the tree of the tracked working files.
C29_StashPushResets ==
    [][(Ran("stash push", None) /\ last'.note = "saved")
       => LET h == get_head_commit(Repo)
              head_tree == TreeOf(objects', h)
          IN  /\ index' = head_tree
              /\ \A p \in DOMAIN index :
                    IF p \in DOMAIN head_tree
                    THEN p \in DOMAIN workdir'
                         /\ workdir'[p] = read_object(objects', head_tree[p]).content
                    ELSE p \notin DOMAIN workdir'
              /\ Len(refs_stash') = Len(refs_stash) + 1
              /\ StashEntryOf(refs_stash'[1], objects', index, stash_workdir_tree(Repo), h)]_vars

\* C30: `merge B` where B does not exist, or B's commit is the HEAD commit, or B's
\* commit is in the ancestor set of the HEAD commit, reports success and leaves
\* HEAD, every ref, the index, the object store and the working tree unchanged.
C30_MergeUpToDate ==
    [][\A b \in BranchNames :
          (/\ Ran("merge", Name(b))
           /\ \/ b \notin DOMAIN refs_heads
              \/ refs_heads[b] = get_head_commit(Repo)
              \/ refs_heads[b] \in get_full_history_set(objects, get_head_commit(Repo)))
          => /\ last'.rc = "ok"
             /\ UNCHANGED <<HEAD, refs_heads, refs_tags, refs_stash, index, objects, workdir,
                            stray>>]_vars

\* merge has just found the named branch strictly behind HEAD, with a file on disk
\* that differs from that branch's tree.
C30_Witness ==
    /\ last.cmd = "merge"
    /\ last.note = "up to date"
    /\ last.arg[2] \in DOMAIN refs_heads
    /\ refs_heads[last.arg[2]] # get_head_commit(Repo)
    /\ refs_heads[last.arg[2]] \in get_full_history_set(objects, get_head_commit(Repo))
    /\ TreeOf(objects, refs_heads[last.arg[2]]) # TreeOf(objects, get_head_commit(Repo))

\* ---------------------------------------------------------------- rebase: the replayed trees
\* One file with two contents, so that the trees of the target and of the replayed
\* commits collide on a path.
NextReplay ==
    \/ \E f \in FileInputs : WriteFile(f[1], f[2])
    \/ \E p \in Paths : Add(FALSE, p)
    \/ \E m \in Messages : Commit(FALSE, m) /\ Within(MaxRebaseCommits)
    \/ Branch(FALSE, "feature", None)
    \/ \E b \in BranchNames : Checkout(FALSE, Name(b))
    \/ Rebase(TRUE, "main") /\ Within(MaxRebaseCommits + 2)

SpecReplay == Init /\ [][NextReplay]_vars

\* Tree t overlaid with the trees of the i oldest commits of R (R newest first), one
\* after the other, the later tree giving the entry of every path it holds.
RECURSIVE OverlaidTree(_, _, _, _)
OverlaidTree(objs, t, R, i) ==
    IF i = 0 THEN t
    ELSE LET prev == OverlaidTree(objs, t, R, i - 1)
             r == TreeOf(objs, R[Len(R) + 1 - i])
         IN  [p \in (DOMAIN prev) \cup (DOMAIN r) |-> IF p \in DOMAIN r THEN r[p] ELSE prev[p]]

\* C31: after a rebase onto T that replays r_1 .. r_n (oldest first), the tree of the
\* i-th replayed commit is T's tree overlaid successively with tree(r_1) .. tree(r_i),
\* the later tree winning on every path both hold and no path being removed; the
\* original commits and their trees are still in the store.
C31_ReplayTree ==
    [][(Ran("rebase", Name("main")) /\ last'.note = "rebased")
       => LET X == HEAD[2]
              T == refs_heads["main"]
              R == ReplayList(objects, refs_heads[X], T)
              n == Len(R)
              walk == get_commit_history(objects', refs_heads'[X])
          IN  /\ n > 0
              /\ Len(walk) > n
              /\ \A i \in 1..n :
                    /\ walk[n + 1 - i][2].tree \in objects'
                    /\ TreeOf(objects', walk[n + 1 - i])
                          = OverlaidTree(objects, TreeOf(objects, T), R, i)
                    /\ DOMAIN TreeOf(objects, T) \subseteq DOMAIN TreeOf(objects', walk[n + 1 - i])
              /\ \A i \in 1..n :
                    /\ R[i] \in objects'
                    /\ R[i][2].tree \in objects'
                    /\ TreeOf(objects', R[i]) = TreeOf(objects, R[i])
              /\ objects \subseteq objects']_vars

\* A rebase has just replayed two commits onto main's commit: main's tree and the
\* replayed tip differ at a.txt, main's tree holds b.txt, and a commit outside the
\* new history (an original) has no b.txt.
C31_Witness ==
    /\ last.cmd = "rebase"
    /\ last.note = "rebased"
    /\ "main" \in DOMAIN refs_heads
    /\ LET walk == get_commit_history(objects, get_head_commit(Repo)) IN
       /\ Len(walk) >= 3
       /\ walk[3] = refs_heads["main"]
       /\ "a.txt" \in DOMAIN TreeOf(objects, walk[3])
       /\ "a.txt" \in DOMAIN TreeOf(objects, walk[1])
       /\ TreeOf(objects, walk[3])["a.txt"] # TreeOf(objects, walk[1])["a.txt"]
       /\ "b.txt" \in DOMAIN TreeOf(objects, walk[3])
       /\ \E c \in Commits :
             /\ c \notin {walk[i] : i \in 1..Len(walk)}
             /\ "b.txt" \notin DOMAIN TreeOf(objects, c)
             /\ TreeOf(objects, c)["a.txt"] = TreeOf(objects, walk[1])["a.txt"]

\* C32: running `status` adds no object to the object store and changes no ref,
\* HEAD or the index, whatever the working tree holds.
C32_ScannerPurity ==
    [][last'.cmd = "status"
       => /\ objects' = objects
          /\ UNCHANGED <<HEAD, refs_heads, refs_tags, refs_stash, index>>]_vars

\* ---------------------------------------------------------------- name resolution: prefixes and tag chains
\* More objects for the resolver: a tag of a tag of a commit, two tags alike in their
\* first four characters, tags that end in a blob, in a tree and in an id that is
\* not stored, and a tree.
id_t2 == <<"a", "a", "a", "a", "1">>
id_t3 == <<"a", "a", "a", "a", "b">>
id_t4 == <<"b", "b", "b", "b", "1">>
id_t5 == <<"b", "a", "b", "a", "1">>
id_tr == <<"1", "a", "1", "a", "1">>
id_missing == <<"b", "b", "b", "b", "b">>

PeelObjects ==
    StoredObjects @@
    (id_t2 :> [type |-> "tag", object |-> id_t1]) @@
    (id_t3 :> [type |-> "tag", object |-> id_bl]) @@
    (id_t4 :> [type |-> "tag", object |-> id_missing]) @@
    (id_t5 :> [type |-> "tag", object |-> id_tr]) @@
    (id_tr :> [type |-> "tree", object |-> None])

PeelNameTexts ==
    NameTexts \cup
    {<<"a", "a", "a", "a">>, <<"A", "a", "a", "a", "1">>, <<"b", "b", "b", "b", "1">>,
     <<"b", "a", "b", "a">>, <<"1", "a", "1", "a">>, <<"b", "b", "b", "b", "b">>,
     <<"1", "1", "1", "1", "a", "a">>, <<"m", "a", "i", "n", "1">>}

\* resolver.py 44-46: the message printed when several stored ids begin with the name.
resolve_ref_prints(heads, tags, dir, name) ==
    /\ name \notin DOMAIN heads
    /\ name \notin DOMAIN tags
    /\ Len(name) >= MinPrefixLen
    /\ \A i \in 1..Len(name) : lower(name)[i] \in HexDigits
    /\ Cardinality({obj \in DOMAIN dir : startswith(obj, lower(name))}) > 1

\* A repository holding these objects, with or without the second of the commits
\* that begin alike, some tags and possibly a branch.
InitPeel ==
    /\ \E B \in SUBSET {<<"m", "a", "i", "n">>} : refs_heads \in [B -> {id_c1}]
    /\ \E T \in SUBSET TagTexts :
          refs_tags \in [T -> {id_c1, id_t1, id_t2, id_t3, id_t4, id_t5, id_bl}]
    /\ HEAD = <<"ref", <<"m", "a", "i", "n">>>>
    /\ objects_dir \in {PeelObjects, [o \in (DOMAIN PeelObjects) \ {id_c2} |-> PeelObjects[o]]}
    /\ pending = <<>>
    /\ writers = <<>>
    /\ objects = {}
    /\ refs_stash = <<>>
    /\ index = EmptyDict
    /\ workdir = EmptyDict
    /\ stray = EmptyDict
    /\ clock = 0
    /\ last = Idle

\* Both surfaces of the resolver on one name: what resolve_ref returns and prints,
\* and what resolve_ref_to_commit returns.
ResolveRef(name) ==
    /\ last' = [cmd |-> "resolve_ref", arg |-> name, rc |-> "ok",
                note |-> [result |-> resolve_ref_text(refs_heads, refs_tags, objects_dir, name),
                          printed |-> resolve_ref_prints(refs_heads, refs_tags, objects_dir, name),
                          commit |-> resolve_ref_to_commit_text(refs_heads, refs_tags,
                                                                objects_dir, name)]]
    /\ UNCHANGED <<objects, HEAD, refs_heads, refs_tags, refs_stash, index, workdir, stray,
                   clock, objects_dir, pending, writers>>

NextPeel == \E name \in PeelNameTexts : ResolveRef(name)

SpecPeel == InitPeel /\ [][NextPeel]_vars

\* The name is made of hex digits in either case.
IsHexText(name) == \A i \in 1..Len(name) : name[i] \in HexDigits \cup {"A", "B"}

\* The stored ids that begin with the name, case apart.
StoredBeginning(name) == {obj \in DOMAIN objects_dir : startswith(obj, lower(name))}

\* C33: for a name of 4 to 40 hex characters that is neither a branch nor a tag,
\* resolve returns the stored id when exactly one begins with the name, a result
\* that says Ambiguous and differs from absent when several do, and absent when none
\* does.
C33_HexPrefix ==
    (/\ last.cmd = "resolve_ref"
     /\ Len(last.arg) >= 4
     /\ IsHexText(last.arg)
     /\ last.arg \notin DOMAIN refs_heads
     /\ last.arg \notin DOMAIN refs_tags)
    => LET n == Cardinality(StoredBeginning(last.arg)) IN
       /\ n = 1 => last.note.result \in StoredBeginning(last.arg)
       /\ n > 1 => last.note.result # None
       /\ n = 0 => last.note.result = None

\* The stored tag objects.
StoredTags == {o \in DOMAIN objects_dir : objects_dir[o].type = "tag"}

\* s is the chain of sha: it starts at sha, each member but the last is a stored tag
\* whose object field is the next member, and the last is not a stored tag.
IsChainOf(s, sha) ==
    /\ s[1] = sha
    /\ \A k \in 1..(Len(s) - 1) : s[k] \in StoredTags /\ objects_dir[s[k]].object = s[k + 1]
    /\ s[Len(s)] \notin StoredTags

\* C34: resolve_to_commit on a name that resolves to an annotated tag object follows
\* the object field through the chain of tag objects and returns the commit at its
\* end, and absent when the chain ends in a blob, a tree or a missing object; plain
\* resolve returns the tag object's own id.
C34_TagPeeling ==
    (last.cmd = "resolve_ref" /\ last.note.result \in StoredTags)
    => /\ \E n \in 2..3 :
          \E s \in [1..n -> (DOMAIN objects_dir) \cup {id_missing}] :
             /\ IsChainOf(s, last.note.result)
             /\ last.note.commit =
                   IF s[n] \in DOMAIN objects_dir /\ objects_dir[s[n]].type = "commit"
                   THEN s[n] ELSE None
       /\ (last.arg \notin DOMAIN refs_heads /\ last.arg \in DOMAIN refs_tags)
             => last.note.result = refs_tags[last.arg]

\* A tag name has just been resolved: plainly to a tag object whose object field is
\* another tag object, and to the commit behind that second tag.
C34_Witness ==
    /\ last.cmd = "resolve_ref"
    /\ last.arg \in DOMAIN refs_tags
    /\ last.arg \notin DOMAIN refs_heads
    /\ last.note.result = id_t2
    /\ objects_dir[id_t2].object = id_t1
    /\ objects_dir[id_t1].type = "tag"
    /\ last.note.commit = id_c3

\* ---------------------------------------------------------------- branch creation
\* `branch <name> [<start>]`, recorded with its start point.
BranchFrom(b, s) == Run(TRUE, "branch", <<b, s>>, branch(Repo, b, s))

\* The start points a user gives: none, a branch, a tag, HEAD, any stored id.
BranchStarts == StartPoints \cup CommitNames

NextBranch ==
    \/ \E f \in CoreFiles : WriteFile(f[1], f[2])
    \/ \E f \in CoreFiles : Add(FALSE, f[1])
    \/ \E f \in CoreFiles : Rm(FALSE, f[1])
    \/ \E m \in Messages : Commit(FALSE, m) /\ Within(MaxCommits)
    \/ \E t \in TagNames, m \in TagMessages \cup {None} : Tag(FALSE, t, None, m)
    \/ \E n \in CommitNames : Checkout(FALSE, n)
    \/ \E b \in BranchNames, s \in BranchStarts : BranchFrom(b, s)

SpecBranch == Init /\ [][NextBranch]_vars

\* The commit behind a stored id: the id of a commit, the commit a tag object
\* names, nothing for another object.
CommitOfId(id) ==
    IF id \in objects /\ id[1] = "commit" THEN id
    ELSE IF id \in objects /\ id[1] = "tag" /\ id[2].object \in objects
            /\ id[2].object[1] = "commit"
    THEN id[2].object
    ELSE None

\* The commit a start point stands for: HEAD's commit when omitted or HEAD, else a
\* branch's commit, else the commit behind a tag, else the commit behind a stored id.
StartCommit(s) ==
    IF s = None \/ s = Name("HEAD") THEN get_head_commit(Repo)
    ELSE IF IsHex(s) THEN CommitOfId(s[2])
    ELSE IF s[2] \in DOMAIN refs_heads THEN refs_heads[s[2]]
    ELSE IF s[2] \in DOMAIN refs_tags THEN CommitOfId(refs_tags[s[2]])
    ELSE None

\* C35: `branch <name> [<start>]` for a name that does not exist creates
\* refs/heads/<name> holding the commit <start> resolves to (HEAD's commit when
\* omitted, HEAD attached or detached) and leaves HEAD, the index, the working tree
\* and every other ref unchanged; when <start> resolves to no commit it fails and
\* creates no ref.
C35_BranchCreation ==
    [][\A b \in BranchNames, s \in BranchStarts :
          (Ran("branch", <<b, s>>) /\ b \notin DOMAIN refs_heads)
          => /\ IF StartCommit(s) # None
                THEN /\ last'.rc = "ok"
                     /\ DOMAIN refs_heads' = (DOMAIN refs_heads) \cup {b}
                     /\ refs_heads'[b] = StartCommit(s)
                     /\ \A x \in DOMAIN refs_heads : refs_heads'[x] = refs_heads[x]
                ELSE /\ last'.rc = "fail"
                     /\ refs_heads' = refs_heads
             /\ UNCHANGED <<HEAD, index, workdir, refs_tags, refs_stash, objects>>]_vars

\* A branch has just been created without a start point while HEAD was detached at
\* a commit that no other branch is at; the index differs from that commit's tree.
C35_Witness ==
    /\ last.cmd = "branch"
    /\ last.rc = "ok"
    /\ last.arg[2] = None
    /\ HEAD[1] = "sha"
    /\ refs_heads[last.arg[1]] = HEAD[2]
    /\ \A x \in (DOMAIN refs_heads) \ {last.arg[1]} : refs_heads[x] # HEAD[2]
    /\ index # TreeOf(objects, HEAD[2])

\* ---------------------------------------------------------------- two processes in hash_object
\* Two processes call hash_object at the same time. Each call is two steps: the
\* test of os.path.exists (lines 36-37) and, when the file was not there, the write
\* of the file (lines 38-39).
Procs == {1, 2}

WriterInputs == {<<"blob", <<>>>>, <<"blob", <<49>>>>, <<"tree", <<>>>>}

NotWriting == [pc |-> "idle", obj_type |-> None, data |-> None]

\* open(object_path, 'ab') in place of 'wb': the bytes go after those in the file.
write_object_file_append(dir, id, bytes) ==
    Put(dir, id, (IF id \in DOMAIN dir THEN dir[id] ELSE <<>>) \o bytes)

\* objects.py 38-39: open(object_path, 'wb') and f.write.
write_object_file(dir, id, bytes) == Put(dir, id, bytes)

\* The ids that processes other than p have found missing and are about to write.
BeingWritten(p) ==
    {hexdigest(header_bytes(writers[q].data, writers[q].obj_type) \o writers[q].data) :
        q \in {r \in Procs \ {p} : writers[r].pc = "write"}}

InitWriters ==
    /\ objects = {}
    /\ HEAD = <<"ref", "main">>
    /\ refs_heads = EmptyDict
    /\ refs_tags = EmptyDict
    /\ refs_stash = <<>>
    /\ index = EmptyDict
    /\ workdir = EmptyDict
    /\ stray = EmptyDict
    /\ clock = 0
    /\ objects_dir = EmptyDict
    /\ pending = <<>>
    /\ writers = [p \in Procs |-> NotWriting]
    /\ last = Idle

\* Lines 32-37: process p computes the id and tests whether its file exists; the
\* call returns when it does.
HashObjectCheck(p, obj_type, data) ==
    LET id == hexdigest(header_bytes(data, obj_type) \o data) IN
    /\ writers[p].pc = "idle"
    /\ Cardinality((DOMAIN objects_dir) \cup BeingWritten(p) \cup {id}) <= MaxObjects
    /\ writers' = [writers EXCEPT ![p] = IF id \in DOMAIN objects_dir THEN NotWriting
                                         ELSE [pc |-> "write", obj_type |-> obj_type,
                                               data |-> data]]
    /\ last' = [cmd |-> "hash_object", arg |-> <<obj_type, data, id, p>>, rc |-> "ok",
                note |-> IF id \in DOMAIN objects_dir THEN "exists" ELSE "missing"]
    /\ UNCHANGED <<objects, HEAD, refs_heads, refs_tags, refs_stash, index, workdir, stray,
                   clock, objects_dir, pending>>

\* Lines 38-41: process p writes the file it found missing, whether or not another
\* process has written it since, and the call returns.
HashObjectWrite(p) ==
    LET data == writers[p].data
        obj_type == writers[p].obj_type
        full_data == header_bytes(data, obj_type) \o data
        id == hexdigest(full_data)
    IN  /\ writers[p].pc = "write"
        /\ objects_dir' = write_object_file(objects_dir, id, zlib_compress(full_data))
        /\ writers' = [writers EXCEPT ![p] = NotWriting]
        /\ last' = [cmd |-> "hash_object", arg |-> <<obj_type, data, id, p>>, rc |-> "ok",
                    note |-> IF id \in DOMAIN objects_dir THEN "rewritten" ELSE "written"]
        /\ UNCHANGED <<objects, HEAD, refs_heads, refs_tags, refs_stash, index, workdir, stray,
                       clock, pending>>

NextWriters ==
    \/ \E p \in Procs, w \in WriterInputs : HashObjectCheck(p, w[1], w[2])
    \/ \E p \in Procs : HashObjectWrite(p)

SpecWriters == InitWriters /\ [][NextWriters]_vars

\* C36: in every interleaving of two processes in hash_object, the test for the file
\* and its write being separate steps, every stored id maps to exactly the framed
\* and compressed content that hashes to it, an id a call has written is stored, and
\* no step alters or removes a stored object.
C36_ConcurrentWriters ==
    [][/\ \A id \in DOMAIN objects_dir :
             id \in DOMAIN objects_dir' /\ objects_dir'[id] = objects_dir[id]
       /\ \A id \in DOMAIN objects_dir' :
             /\ id = hexdigest(zlib_decompress(objects_dir'[id]))
             /\ \E w \in WriterInputs :
                   read_object_bytes(objects_dir', id) = [type |-> encode(w[1]), content |-> w[2]]
       /\ (last'.cmd = "hash_object" /\ last'.note # "missing")
             => last'.arg[3] \in DOMAIN objects_dir']_vars

\* A process has just written a file that the other process stored after the first
\* had found it missing; another object is stored as well.
C36_Witness ==
    /\ last.cmd = "hash_object"
    /\ last.note = "rewritten"
    /\ Cardinality(DOMAIN objects_dir) = 2

\* ---------------------------------------------------------------- merge with HEAD attached or detached
NextMergeHead ==
    \/ \E f \in RefFiles : WriteFile(f[1], f[2])
    \/ \E f \in RefFiles : Add(FALSE, f[1])
    \/ \E m \in Messages : Commit(FALSE, m) /\ Within(MaxCommits)
    \/ Branch(FALSE, "feature", None)
    \/ \E n \in {Name(b) : b \in BranchNames} \cup {Hex(o) : o \in Commits} : Checkout(FALSE, n)
    \/ \E b \in BranchNames : Merge(TRUE, b) /\ Within(MaxCommits + 1)

SpecMergeHead == Init /\ [][NextMergeHead]_vars

\* C37: after a merge that creates a merge commit M, HEAD resolves to M whether HEAD
\* was attached or detached before, and the only files written under .pygit are
\* objects, the ref HEAD designates (or HEAD itself) and the index.
C37_MergeReachableFromHead ==
    [][(last'.cmd = "merge" /\ last'.note = "merged")
       => \E M \in CommitsOf(objects') \ CommitsOf(objects) :
             /\ Len(M[2].parents) = 2
             /\ IF HEAD'[1] = "sha" THEN HEAD'[2] = M
                ELSE HEAD'[2] \in DOMAIN refs_heads' /\ refs_heads'[HEAD'[2]] = M
             /\ stray' = stray
             /\ UNCHANGED <<refs_tags, refs_stash>>
             /\ \A b \in DOMAIN refs_heads' :
                   (HEAD[1] = "sha" \/ b # HEAD[2])
                   => b \in DOMAIN refs_heads /\ refs_heads'[b] = refs_heads[b]]_vars

\* C38: in every state the commands reach after init, HEAD is either attached to a
\* branch or the id of a stored commit object, and an attached HEAD names a branch
\* whose ref file exists, except for the unborn main before the first commit.
C38_HeadValidity ==
    /\ HEAD[1] \in {"ref", "sha"}
    /\ HEAD[1] = "sha" => (HEAD[2] \in objects /\ HEAD[2][1] = "commit")
    /\ HEAD[1] = "ref" => \/ HEAD[2] \in DOMAIN refs_heads
                          \/ (HEAD[2] = "main" /\ refs_heads = EmptyDict
                              /\ CommitsOf(objects) = {})

\* A commit has just been made on a detached HEAD: HEAD is the id of the new commit,
\* which no branch holds, while branches, a tag and a stash entry exist.
C38_Witness ==
    /\ last.cmd = "commit"
    /\ last.note = "committed"
    /\ HEAD[1] = "sha"
    /\ \A b \in DOMAIN refs_heads : refs_heads[b] # HEAD[2]
    /\ DOMAIN refs_heads # {}
    /\ refs_stash # <<>>
====
